---- MODULE Spec2Model ----
(***************************************************************************)
(* A model of yt-ch-archiver: the sqlite cache (db.py), the paginated      *)
(* YouTube fetchers and the playlist item classifier (yt.py, app.py) and   *)
(* the download pipeline (cmds.py).                                        *)
(***************************************************************************)
EXTENDS Integers, Sequences, FiniteSets, TLC

VARIABLES
    channels,        \* rows of table channels
    videos,          \* rows of table videos
    playlists,       \* rows of table playlists
    playlist_items,  \* rows of table playlist_items
    call,            \* the last db.save_* call: its name and its argument
    disk,            \* the files that exist under the download root
    root_path,       \* environment variable YT_CH_ARCHIVER_ROOT_PATH
    pc,              \* "idle", or "download" inside download_videos
    cmd,             \* the command that is running
    txn,             \* the calling connection's uncommitted inserts
    batch,           \* download_videos: the videos argument (Video objects)
    idx,             \* download_videos: position in the batch
    skip_ids,        \* download_videos: the skip_ids argument
    channel_id_name_table, \* download_videos: channel ID -> username
    downloaded_videos,     \* download_videos: the first list returned
    failed_videos,   \* download_videos: the second list returned
    decisions,       \* what the running command printed for each video
    result,          \* how the last command ended
    runs,            \* number of commands started
    prev_run,        \* the previous channel-wide download and what it fetched
    remote,          \* YouTube: the pages of each collection
    fetch,           \* the fetcher that is running: arguments, locals, requests
    sync,            \* channels_sync: its argument, position, report and file
    columns          \* the database file: the column names of its tables

storeVars == <<channels, videos, playlists, playlist_items, call>>

dlVars == <<disk, root_path, pc, cmd, txn, batch, idx, skip_ids,
            channel_id_name_table, downloaded_videos, failed_videos,
            decisions, result, runs, prev_run>>

fetchVars == <<remote, fetch, sync, columns>>

vars == <<storeVars, dlVars, fetchVars>>

(***************************************************************************)
(* Values.                                                                 *)
(***************************************************************************)
NULL == "<NULL>"

ChannelIds == {"UC_A", "UC_B"}
Usernames == {"@alpha", "@beta"}
VideoIdSeq == <<"vid1", "vid2", "vid3", "vid4", "vid5">>
PlaylistIds == {"PL1", "PL2"}
ItemIds == {"it1", "it2", "it3"}

(***************************************************************************)
(* db.py: the rows of the four tables. A column the INSERT does not name   *)
(* gets the column default, NULL.                                          *)
(***************************************************************************)
ChannelRow(id, username, published_at, title, description, large, medium, small) ==
    [id |-> id, username |-> username, published_at |-> published_at,
     title |-> title, description |-> description, large_thumbnail |-> large,
     medium_thumbnail |-> medium, small_thumbnail |-> small]

VideoRow(id, channel_id, title, saved_path, is_unlisted, is_private) ==
    [id |-> id, channel_id |-> channel_id, title |-> title,
     saved_path |-> saved_path, is_unlisted |-> is_unlisted,
     is_private |-> is_private, download_error |-> NULL, duration |-> NULL,
     resolution |-> NULL]

PlaylistRow(id, channel_id, title) ==
    [id |-> id, channel_id |-> channel_id, title |-> title]

\* the columns of channels, videos and playlist_items in a file of this
\* version, in the order in which create_or_get_conn makes them (db.py 36-128)
ChannelColumns ==
    <<"id", "username", "title", "description", "published_at",
      "large_thumbnail", "medium_thumbnail", "small_thumbnail">>

VideoColumns ==
    <<"id", "channel_id", "title", "saved_path", "is_unlisted", "is_private",
      "download_error", "duration", "resolution">>

ItemColumns ==
    <<"id", "playlist_id", "video_id", "channel_id", "title", "position",
      "is_unlisted", "is_private", "is_external", "is_deleted">>

Schema ==
    [channels |-> ChannelColumns, videos |-> VideoColumns,
     playlist_items |-> ItemColumns]

\* 1 if flag else 0 (db.py 217-220)
Bit(flag) == IF flag THEN 1 ELSE 0

PlaylistItemRow(playlist_id, item) ==
    [id |-> item.id, playlist_id |-> playlist_id, video_id |-> item.video_id,
     channel_id |-> item.channel_id, title |-> item.title,
     position |-> item.position, is_unlisted |-> Bit(item.is_unlisted),
     is_private |-> Bit(item.is_private), is_external |-> Bit(item.is_external),
     is_deleted |-> Bit(item.is_deleted)]

\* INSERT OR REPLACE: the new row takes the place of the row with its key.
InsertOrReplace(table, row) ==
    {r \in table : r.id # row.id} \cup {row}

\* INSERT OR IGNORE INTO table: a row whose primary key is already in the
\* table is dropped, the table is unchanged.
InsertOrIgnore(table, row) ==
    IF \E r \in table : r.id = row.id THEN table ELSE table \cup {row}

\* save_thumbnail_as_png_byte_array: the image encoded as PNG bytes
save_thumbnail_as_png_byte_array(image) == "png:" \o image

save_channel(table, id, username) ==
    InsertOrIgnore(table, ChannelRow(id, username, NULL, NULL, NULL, NULL, NULL, NULL))

\* save_channel_details raises before the INSERT when a thumbnail is missing
save_channel_details_raises(channel) ==
    \/ channel.small_thumbnail = NULL
    \/ channel.medium_thumbnail = NULL
    \/ channel.large_thumbnail = NULL

save_channel_details(table, channel) ==
    IF save_channel_details_raises(channel) THEN table
    ELSE InsertOrIgnore(table,
            ChannelRow(channel.id, channel.username, channel.published_at,
                       channel.title, channel.description,
                       save_thumbnail_as_png_byte_array(channel.large_thumbnail),
                       save_thumbnail_as_png_byte_array(channel.medium_thumbnail),
                       save_thumbnail_as_png_byte_array(channel.small_thumbnail)))

save_video(table, video) ==
    InsertOrIgnore(table,
        VideoRow(video.id, video.channel_id, video.title, video.saved_path,
                 video.is_unlisted, video.is_private))

save_playlist(table, playlist) ==
    InsertOrIgnore(table, PlaylistRow(playlist.id, playlist.channel_id, playlist.title))

\* save_playlist_item as INSERT OR REPLACE
save_playlist_item_replacing(table, playlist_id, playlist_item) ==
    InsertOrReplace(table, PlaylistItemRow(playlist_id, playlist_item))

save_playlist_item(table, playlist_id, playlist_item) ==
    InsertOrIgnore(table, PlaylistItemRow(playlist_id, playlist_item))

(***************************************************************************)
(* models.py: the objects the callers hand to the save functions.          *)
(***************************************************************************)
\* Video.__init__ (a Python bool is the integer 0 or 1)
Video(id, title, channel_id, saved_path, is_unlisted, is_private) ==
    [id |-> id, title |-> title, channel_id |-> channel_id,
     saved_path |-> saved_path, is_unlisted |-> is_unlisted,
     is_private |-> is_private, download_error |-> "", duration |-> "",
     resolution |-> ""]

\* Playlist.PlaylistItem.__init__: a flag is True exactly when it is given as 1
PlaylistItem(id, video_id, channel_id, title, position, is_unlisted, is_private, is_external, is_deleted) ==
    [id |-> id, video_id |-> video_id, channel_id |-> channel_id,
     title |-> title, position |-> position, is_unlisted |-> (is_unlisted = 1),
     is_private |-> (is_private = 1), is_external |-> (is_external = 1),
     is_deleted |-> (is_deleted = 1)]

(***************************************************************************)
(* db.py: the UPDATE statements and the lookups.                           *)
(***************************************************************************)
\* UPDATE videos SET duration = ?, resolution = ? WHERE id = ?
save_downloaded_video_details_no_path(table, video) ==
    {IF r.id = video.id
        THEN [r EXCEPT !.duration = video.duration,
                       !.resolution = video.resolution]
        ELSE r : r \in table}

\* UPDATE videos SET saved_path = ?, duration = ?, resolution = ? WHERE id = ?
save_downloaded_video_details(table, video) ==
    {IF r.id = video.id
        THEN [r EXCEPT !.saved_path = video.saved_path,
                       !.duration = video.duration,
                       !.resolution = video.resolution]
        ELSE r : r \in table}

\* UPDATE videos SET download_error = ? WHERE id = ?
save_download_error(table, video_id, download_error) ==
    {IF r.id = video_id THEN [r EXCEPT !.download_error = download_error]
        ELSE r : r \in table}

\* Python truth of a string or None: None and "" are false
Truthy(s) == s # NULL /\ s # ""

\* Video.from_row that leaves the details as the constructor sets them
from_row_without_details(row) ==
    Video(row.id, row.title, row.channel_id, row.saved_path,
          row.is_unlisted, row.is_private)

\* Video.from_row: the columns of SELECT * in schema order; download_error,
\* duration and resolution keep the constructor's "" when the column is NULL
from_row(row) ==
    [Video(row.id, row.title, row.channel_id, row.saved_path,
           row.is_unlisted, row.is_private)
        EXCEPT !.download_error = IF Truthy(row.download_error)
                                    THEN row.download_error ELSE "",
               !.duration = IF Truthy(row.duration) THEN row.duration ELSE "",
               !.resolution = IF Truthy(row.resolution) THEN row.resolution ELSE ""]

\* the rows of a table in the order a SELECT without ORDER BY returns them
\* (insertion order, which for the cached videos is the order of VideoIdSeq)
RECURSIVE RowsInOrder(_, _)
RowsInOrder(table, i) ==
    IF i > Len(VideoIdSeq) THEN <<>>
    ELSE LET rows == {r \in table : r.id = VideoIdSeq[i]}
         IN (IF rows = {} THEN <<>> ELSE <<CHOOSE r \in rows : TRUE>>)
                \o RowsInOrder(table, i + 1)

\* get_channel_id_from_username: the id, or NULL where the code raises
get_channel_id_from_username(table, channel_username) ==
    IF \E r \in table : r.username = channel_username
        THEN (CHOOSE r \in table : r.username = channel_username).id
        ELSE NULL

\* get_videos(cursor, channel_id, False): the videos of the channel; the
\* code raises when there is none (here: the empty sequence)
get_videos(table, channel_id) ==
    LET rows == RowsInOrder({r \in table : r.channel_id = channel_id}, 1)
    IN [i \in 1..Len(rows) |-> from_row(rows[i])]

\* get_video_by_id: the Video of the row fetchone() returns; the empty set
\* stands for None
get_video_by_id(table, video_id) ==
    {from_row(r) : r \in {x \in table : x.id = video_id}}

\* get_channels: channel ID -> username
get_channels(table) ==
    [id \in {r.id : r \in table} |-> (CHOOSE r \in table : r.id = id).username]

(***************************************************************************)
(* cmds.py: the download pipeline.                                         *)
(***************************************************************************)
\* channel_username[1:] when the username starts with '@'
StripAt(channel_username) ==
    CASE channel_username = "@alpha" -> "alpha"
      [] channel_username = "@beta" -> "beta"
      [] OTHER -> channel_username

\* get_channel_download_path; raises when the root path is not set
get_channel_download_path_raises == ~Truthy(root_path)

get_channel_download_path(channel_username) ==
    root_path \o "/" \o StripAt(channel_username)

FilePath(dir, video_id, ext) == dir \o "/" \o video_id \o "." \o ext

\* the containers yt-dlp writes the media in
MediaExts == {"mp4", "webm"}

FileExts == {"mp4", "webm", "webp", "jpg"}

ExtFirstChar == [mp4 |-> "m", webm |-> "w", webp |-> "w", jpg |-> "j"]

\* the character class [!webp|jpg] of the glob pattern: one character that
\* is none of these
GlobExcluded == {"w", "e", "b", "p", "|", "j", "g"}

\* get_full_video_path: glob.glob(f"{video_id}.[!webp|jpg]*"); the code takes
\* files[0] and raises IndexError when there is none
get_full_video_path(files, download_path, video_id) ==
    {FilePath(download_path, video_id, ext) :
        ext \in {e \in FileExts :
                    /\ FilePath(download_path, video_id, e) \in files
                    /\ ExtFirstChar[e] \notin GlobExcluded}}

\* get_media_info on a readable file
MediaDuration == "12m34s"
MediaResolution == "1920x1080"

\* download_videos without the test of is_private
Decide_no_private(video, skip, files) ==
    IF Truthy(video.saved_path) /\ video.saved_path \in files THEN "saved"
    ELSE IF video.id \in skip THEN "skip_list"
    ELSE "attempt"

\* download_videos, lines 525-533: what is done with one video of the batch
Decide(video, skip, files) ==
    IF Truthy(video.saved_path) /\ video.saved_path \in files THEN "saved"
    ELSE IF video.is_private # 0 THEN "private"
    ELSE IF video.id \in skip THEN "skip_list"
    ELSE "attempt"

\* What yt-dlp, pymediainfo and PIL do for one attempt.
Outcomes ==
    [transfer : {"raises"} \cup MediaExts, media : {"ok", "raises"},
     thumb : {"ok", "raises"}]

\* the first statement of the try block that raises, "none" when none does
FailingStep(o, files_found, locked) ==
    IF o.transfer = "raises" THEN "transfer"
    ELSE IF files_found = {} THEN "glob"
    ELSE IF o.media = "raises" THEN "media"
    ELSE IF locked THEN "db"
    ELSE IF o.thumb = "raises" THEN "thumb"
    ELSE "none"

\* str(e) of the exception of each step
ErrorText ==
    [transfer |-> "ERROR: unable to download", glob |-> "list index out of range",
     media |-> "no video track", db |-> "database is locked",
     thumb |-> "cannot identify image file"]

\* download_videos, lines 534-599: one attempt, from get_channel_download_path
\* to the append to one of the two lists. The result: the files, the videos
\* table, the Video object and where the attempt ended: "downloaded",
\* "failed", or "propagates" when the except block itself raises.
Attempt(video, o, files, table, locked) ==
    LET channel_download_path ==
            get_channel_download_path(channel_id_name_table[video.channel_id])
        dir == channel_download_path \o "/video"
        files1 == IF o.transfer = "raises" THEN files
                  ELSE files \cup {FilePath(dir, video.id, o.transfer),
                                   FilePath(dir, video.id, "webp")}
        found == get_full_video_path(files1, dir, video.id)
        step == FailingStep(o, found, locked)
        video1 == IF step \in {"transfer", "glob"} THEN video
                  ELSE [video EXCEPT !.saved_path = CHOOSE f \in found : TRUE]
        video2 == IF step \in {"transfer", "glob", "media"} THEN video1
                  ELSE [video1 EXCEPT !.duration = MediaDuration,
                                      !.resolution = MediaResolution]
        table1 == IF step \in {"thumb", "none"}
                    THEN save_downloaded_video_details(table, video2)
                    ELSE table
        files2 == IF step = "none"
                    THEN files1 \cup {FilePath(channel_download_path \o "/thumbnail",
                                               video.id, "jpg")}
                    ELSE files1
    IN  IF step = "none"
            THEN [end |-> "downloaded", files |-> files2, table |-> table1,
                  video |-> video2, step |-> step]
        ELSE IF locked
            THEN [end |-> "propagates", files |-> files2, table |-> table1,
                  video |-> [video2 EXCEPT !.download_error = ErrorText[step]],
                  step |-> step]
        ELSE [end |-> "failed", files |-> files2,
              table |-> save_download_error(table1, video.id, ErrorText[step]),
              video |-> [video2 EXCEPT !.download_error = ErrorText[step]],
              step |-> step]

(***************************************************************************)
(* yt.py and app.py: the YouTube Data API and the paginated fetchers. A    *)
(* collection is served as pages; the response of every page but the last  *)
(* carries the continuation token that leads to the next page.             *)
(***************************************************************************)
MaxPages == 3
MaxPageItems == 2

\* page requests after which a loop that has not returned is followed no
\* further
MaxRequests == 2 * MaxPages + 1

\* the continuation token that leads to page k
TokenOf(k) == "tok" \o ToString(k)

\* list(..., pageToken=page_token).execute(): without a token the first
\* page, with a token the page it leads to
Execute(pages, page_token) ==
    LET k == IF page_token = NULL THEN 1
             ELSE CHOOSE j \in 1..Len(pages) : TokenOf(j) = page_token
    IN  [page |-> k, items |-> pages[k],
         nextPageToken |-> IF k < Len(pages) THEN TokenOf(k + 1) ELSE NULL]

\* a list request that names no pageToken
PageToken_omitted(next_page_token) == NULL

\* pageToken=next_page_token (None before the first response)
PageToken(next_page_token) == next_page_token

\* Playlist.__init__
Playlist(id, title, channel_id) ==
    [id |-> id, title |-> title, channel_id |-> channel_id, items |-> <<>>]

\* the snippet title videos().list returns for a video
RemoteTitle(video_id) == "title of " \o video_id

\* Video.from_search_response_item: one videos().list request for the title
from_search_response_item(item, channel_id) ==
    Video(item.id, RemoteTitle(item.id), channel_id, "", 0, 0)

Sentinels == {"Private video", "Deleted video"}

\* get_playlist_items with is_unlisted = 1 for every video that is not in
\* video_ids, external or not
Classify_unlisted_external(item, playlist, video_ids) ==
    LET channel_id == IF item.title = "Private video" \/ item.title = "Deleted video"
                        THEN playlist.channel_id
                        ELSE item.videoOwnerChannelId
        is_external == IF channel_id # playlist.channel_id THEN 1 ELSE 0
        is_unlisted == IF item.videoId \notin video_ids THEN 1 ELSE 0
        is_private == IF item.title = "Private video" THEN 1 ELSE 0
        is_deleted == IF item.title = "Deleted video" THEN 1 ELSE 0
    IN  PlaylistItem(item.id, item.videoId, channel_id, item.title, item.position,
                     is_unlisted, is_private, is_external, is_deleted)

\* get_playlist_items taking the channel of every item, sentinel title or
\* not, from the owner field of the response
Classify_reading_owner(item, playlist, video_ids) ==
    LET channel_id == item.videoOwnerChannelId
        is_external == IF channel_id # playlist.channel_id THEN 1 ELSE 0
        is_unlisted == IF is_external = 0 /\ item.videoId \notin video_ids
                        THEN 1 ELSE 0
        is_private == IF item.title = "Private video" THEN 1 ELSE 0
        is_deleted == IF item.title = "Deleted video" THEN 1 ELSE 0
    IN  PlaylistItem(item.id, item.videoId, channel_id, item.title, item.position,
                     is_unlisted, is_private, is_external, is_deleted)

\* yt.get_playlist_items, lines 112-136: the PlaylistItem added for one item
\* of the response
Classify(item, playlist, video_ids) ==
    LET channel_id == IF item.title = "Private video" \/ item.title = "Deleted video"
                        THEN playlist.channel_id
                        ELSE item.videoOwnerChannelId
        is_external == IF channel_id # playlist.channel_id THEN 1 ELSE 0
        is_unlisted == IF is_external = 0 /\ item.videoId \notin video_ids
                        THEN 1 ELSE 0
        is_private == IF item.title = "Private video" THEN 1 ELSE 0
        is_deleted == IF item.title = "Deleted video" THEN 1 ELSE 0
    IN  PlaylistItem(item.id, item.videoId, channel_id, item.title, item.position,
                     is_unlisted, is_private, is_external, is_deleted)

\* yt.get_playlist_items, lines 115-120: db.save_channel for the owner of
\* every item whose title is no sentinel, in item order
RECURSIVE SaveOwners(_, _, _)
SaveOwners(table, items, i) ==
    IF i > Len(items) THEN table
    ELSE SaveOwners(IF items[i].title \in Sentinels THEN table
                    ELSE save_channel(table, items[i].videoOwnerChannelId,
                                      items[i].videoOwnerChannelTitle),
                    items, i + 1)

\* INSERT OR IGNORE INTO playlists for every playlist of a list
RECURSIVE SavePlaylists(_, _, _)
SavePlaylists(table, list, i) ==
    IF i > Len(list) THEN table
    ELSE SavePlaylists(save_playlist(table, list[i]), list, i + 1)

Fetchers ==
    {"yt.get_channel_videos", "yt.get_playlists_for_channel",
     "yt.get_playlist_items", "app.get_playlists_for_channel"}

\* the key of the remote collection a fetcher is reading
Collection(st) ==
    CASE st.fn = "yt.get_channel_videos" -> "videos"
      [] st.fn = "yt.get_playlist_items" -> st.playlists[st.coll].id
      [] OTHER -> "playlists"

\* a fetcher called: its arguments and its locals before the first request.
\* get_playlist_items given no playlist returns at once.
Called(fn, channel_id, playlist_list, video_ids, cursor_channels, cursor_playlists) ==
    [fn |-> fn, channel_id |-> channel_id, playlists |-> playlist_list,
     video_ids |-> video_ids, coll |-> 1, next_page_token |-> NULL,
     items |-> <<>>, out |-> <<>>, requests |-> <<>>, lookups |-> 0,
     searches |-> 0, cursor_channels |-> cursor_channels,
     cursor_playlists |-> cursor_playlists,
     pc |-> IF fn = "yt.get_playlist_items" /\ playlist_list = <<>>
                THEN "returned" ELSE "loop"]

\* the request and the response as the loop sees them
Logged(st, page_token, response) ==
    [coll |-> st.coll, pageToken |-> page_token, page |-> response.page,
     nextPageToken |-> response.nextPageToken]

\* yt.get_channel_videos, lines 43-61: one pass of the loop
yt_get_channel_videos(pages, st) ==
    LET page_token == PageToken(st.next_page_token)
        response == Execute(pages, page_token)
        more == Truthy(response.nextPageToken)
        all == st.items \o
               [i \in 1..Len(response.items) |->
                    from_search_response_item(response.items[i], st.channel_id)]
    IN  [st EXCEPT !.items = all,
                   !.next_page_token = response.nextPageToken,
                   !.requests = Append(@, Logged(st, page_token, response)),
                   !.lookups = @ + Len(response.items),
                   !.out = IF more THEN @ ELSE <<all>>,
                   !.pc = IF more THEN "loop" ELSE "returned"]

\* get_playlists_for_channel raising when a response carries no playlist
yt_get_playlists_for_channel_no_empty(pages, st) ==
    LET page_token == PageToken(st.next_page_token)
        response == Execute(pages, page_token)
        more == Truthy(response.nextPageToken)
        all == st.items \o
               [i \in 1..Len(response.items) |->
                    Playlist(response.items[i].id, response.items[i].title,
                             st.channel_id)]
    IN  [st EXCEPT !.items = all,
                   !.next_page_token = response.nextPageToken,
                   !.requests = Append(@, Logged(st, page_token, response)),
                   !.out = IF more THEN @ ELSE <<all>>,
                   !.pc = IF Len(response.items) = 0 THEN "raised"
                          ELSE IF more THEN "loop" ELSE "returned"]

\* yt.get_playlists_for_channel, lines 67-86: one pass of the loop
yt_get_playlists_for_channel(pages, st) ==
    LET page_token == PageToken(st.next_page_token)
        response == Execute(pages, page_token)
        more == Truthy(response.nextPageToken)
        all == st.items \o
               [i \in 1..Len(response.items) |->
                    Playlist(response.items[i].id, response.items[i].title,
                             st.channel_id)]
    IN  [st EXCEPT !.items = all,
                   !.next_page_token = response.nextPageToken,
                   !.requests = Append(@, Logged(st, page_token, response)),
                   !.out = IF more THEN @ ELSE <<all>>,
                   !.pc = IF more THEN "loop" ELSE "returned"]

\* yt.get_playlist_items, lines 90-137: one pass of the inner loop; after the
\* last page of a playlist its items are classified and added to it, and the
\* next playlist starts without a token
yt_get_playlist_items(pages, st) ==
    LET page_token == PageToken(st.next_page_token)
        response == Execute(pages, page_token)
        more == Truthy(response.nextPageToken)
        all == st.items \o response.items
        playlist == st.playlists[st.coll]
        last == st.coll = Len(st.playlists)
        added == [i \in 1..Len(all) |-> Classify(all[i], playlist, st.video_ids)]
        logged == Append(st.requests, Logged(st, page_token, response))
    IN  IF more
            THEN [st EXCEPT !.items = all,
                            !.next_page_token = response.nextPageToken,
                            !.requests = logged]
            ELSE [st EXCEPT !.items = IF last THEN all ELSE <<>>,
                            !.next_page_token = NULL,
                            !.requests = logged,
                            !.cursor_channels = SaveOwners(@, all, 1),
                            !.out = Append(@, [playlist EXCEPT !.items = added]),
                            !.coll = IF last THEN @ ELSE @ + 1,
                            !.pc = IF last THEN "returned" ELSE "loop"]

\* app.py get_playlists_for_channel, lines 374-396: one pass of the loop; the
\* request names no pageToken, the playlists of the page are inserted and
\* committed
app_get_playlists_for_channel(pages, st) ==
    LET response == Execute(pages, NULL)
        more == Truthy(response.nextPageToken)
        page == [i \in 1..Len(response.items) |->
                    Playlist(response.items[i].id, response.items[i].title,
                             st.channel_id)]
        all == st.items \o page
    IN  [st EXCEPT !.items = all,
                   !.next_page_token = response.nextPageToken,
                   !.requests = Append(@, Logged(st, NULL, response)),
                   !.cursor_playlists = SavePlaylists(@, page, 1),
                   !.out = IF more THEN @ ELSE <<all>>,
                   !.pc = IF more THEN "loop" ELSE "returned"]

\* one pass of the loop of the fetcher that is running
Pass(rem, st) ==
    CASE st.fn = "yt.get_channel_videos" ->
            yt_get_channel_videos(rem[Collection(st)], st)
      [] st.fn = "yt.get_playlists_for_channel" ->
            yt_get_playlists_for_channel(rem[Collection(st)], st)
      [] st.fn = "yt.get_playlist_items" ->
            yt_get_playlist_items(rem[Collection(st)], st)
      [] OTHER -> app_get_playlists_for_channel(rem[Collection(st)], st)

\* a fetcher of yt.py run until it returns
RECURSIVE Run(_, _)
Run(rem, st) == IF st.pc = "loop" THEN Run(rem, Pass(rem, st)) ELSE st

\* no fetcher was called
NoFetch == [Called("none", NULL, <<>>, {}, {}, {}) EXCEPT !.pc = "idle"]

NoRemote == [videos |-> <<<<>>>>, playlists |-> <<<<>>>>]

\* channels_sync was not called
NoSync == [stage |-> "none"]

(***************************************************************************)
(* The store under arbitrary sequences of save calls.                      *)
(***************************************************************************)
StoreChannelArgs ==
    [id : ChannelIds, username : Usernames, published_at : {"2020-01-01"},
     title : {"Alpha"}, description : {"about"}, large_thumbnail : {"L"},
     medium_thumbnail : {"M"}, small_thumbnail : {NULL, "S"}]

StoreVideoArgs ==
    {Video(id, title, "UC_A", "", unl, 0) :
        id \in {VideoIdSeq[1], VideoIdSeq[2]}, title \in {"first", "second"},
        unl \in {0}}

StorePlaylistArgs ==
    [id : {"PL1"}, channel_id : ChannelIds, title : {"mix"}]

StoreItemArgs ==
    {PlaylistItem(id, VideoIdSeq[1], "UC_A", "first", pos, unl, 0, 0, 0) :
        id \in {"it1"}, pos \in {0, 1}, unl \in {1}}

NoCall == [op |-> "none"]

NoResult == [status |-> "none"]
NoTxn == [open |-> FALSE, channels |-> {}, videos |-> {}]
NoPrevRun == [channel |-> NULL, downloaded |-> {}, intact |-> FALSE]

\* no command is running and none has run
DownloadIdle ==
    /\ disk = {}
    /\ root_path = NULL
    /\ pc = "idle"
    /\ cmd = NoCall
    /\ txn = NoTxn
    /\ batch = <<>>
    /\ idx = 1
    /\ skip_ids = {}
    /\ channel_id_name_table = <<>>
    /\ downloaded_videos = <<>>
    /\ failed_videos = <<>>
    /\ decisions = <<>>
    /\ result = NoResult
    /\ runs = 0
    /\ prev_run = NoPrevRun

\* no fetcher is running and none has run
FetchIdle ==
    /\ remote = NoRemote
    /\ fetch = NoFetch
    /\ sync = NoSync
    /\ columns = Schema

InitStore ==
    /\ channels = {}
    /\ videos = {}
    /\ playlists = {}
    /\ playlist_items = {}
    /\ call = NoCall
    /\ DownloadIdle
    /\ FetchIdle

SaveChannel ==
    \E id \in ChannelIds, username \in Usernames :
        /\ channels' = save_channel(channels, id, username)
        /\ call' = [op |-> "save_channel", id |-> id, username |-> username]
        /\ UNCHANGED <<videos, playlists, playlist_items, dlVars, fetchVars>>

SaveChannelDetails ==
    \E channel \in StoreChannelArgs :
        /\ channels' = save_channel_details(channels, channel)
        /\ call' = [op |-> "save_channel_details", id |-> channel.id,
                    username |-> channel.username]
        /\ UNCHANGED <<videos, playlists, playlist_items, dlVars, fetchVars>>

SaveVideo ==
    \E video \in StoreVideoArgs :
        /\ videos' = save_video(videos, video)
        /\ call' = [op |-> "save_video", id |-> video.id, title |-> video.title]
        /\ UNCHANGED <<channels, playlists, playlist_items, dlVars, fetchVars>>

SavePlaylist ==
    \E playlist \in StorePlaylistArgs :
        /\ playlists' = save_playlist(playlists, playlist)
        /\ call' = [op |-> "save_playlist", id |-> playlist.id,
                    channel_id |-> playlist.channel_id]
        /\ UNCHANGED <<channels, videos, playlist_items, dlVars, fetchVars>>

SavePlaylistItem ==
    \E playlist_id \in PlaylistIds, item \in StoreItemArgs :
        /\ playlist_items' = save_playlist_item(playlist_items, playlist_id, item)
        /\ call' = [op |-> "save_playlist_item", id |-> item.id,
                    playlist_id |-> playlist_id]
        /\ UNCHANGED <<channels, videos, playlists, dlVars, fetchVars>>

NextStore ==
    \/ SaveChannel
    \/ SaveChannelDetails
    \/ SaveVideo
    \/ SavePlaylist
    \/ SavePlaylistItem

SpecStore == InitStore /\ [][NextStore]_vars

(***************************************************************************)
(* The download commands of cmds.py over a cache that holds one channel    *)
(* and its videos; one more video exists on YouTube only.                  *)
(***************************************************************************)
NumVideos == 2
MaxRuns == 2

CachedIds == {VideoIdSeq[i] : i \in 1..NumVideos}
\* the --skip-ids lists tried: none, or one video
SkipLists == {{}} \cup {{v} : v \in CachedIds}
UncachedIds == {"ext1"}
RootPaths == {NULL, "/archive"}

\* yt.get_video for a video that is on YouTube
RemoteVideo(video_id) == Video(video_id, "remote title", "UC_B", "", 0, 0)

\* yt.get_channel_info_by_id: the channel of that video, with or without
\* thumbnail images
RemoteChannel(with_thumbnails) ==
    [id |-> "UC_B", username |-> "beta", published_at |-> "2020-01-01",
     title |-> "Beta", description |-> "about",
     large_thumbnail |-> IF with_thumbnails THEN "L" ELSE NULL,
     medium_thumbnail |-> IF with_thumbnails THEN "M" ELSE NULL,
     small_thumbnail |-> IF with_thumbnails THEN "S" ELSE NULL]

\* the image of a stored PNG byte array
ImageOf(bytes) ==
    CASE bytes = "png:L" -> "L"
      [] bytes = "png:M" -> "M"
      [] bytes = "png:S" -> "S"
      [] OTHER -> NULL

\* Channel.from_row_with_image_data
from_row_with_image_data(row) ==
    [row EXCEPT !.large_thumbnail = ImageOf(row.large_thumbnail),
                !.medium_thumbnail = ImageOf(row.medium_thumbnail),
                !.small_thumbnail = ImageOf(row.small_thumbnail)]

\* get_channel_by_id: the Channel of the row; the empty set stands for None
get_channel_by_id(table, channel_id) ==
    {from_row_with_image_data(r) : r \in {x \in table : x.id = channel_id}}

InitDownload ==
    /\ channels = {ChannelRow("UC_A", "@alpha", NULL, NULL, NULL, NULL, NULL, NULL)}
    /\ \E private \in [1..NumVideos -> {0, 1}] :
          videos = {VideoRow(VideoIdSeq[i], "UC_A", "title", "", 0, private[i]) :
                        i \in 1..NumVideos}
    /\ playlists = {}
    /\ playlist_items = {}
    /\ call = NoCall
    /\ disk = {}
    /\ root_path \in RootPaths
    /\ pc = "idle"
    /\ cmd = NoCall
    /\ txn = NoTxn
    /\ batch = <<>>
    /\ idx = 1
    /\ skip_ids = {}
    /\ channel_id_name_table = <<>>
    /\ downloaded_videos = <<>>
    /\ failed_videos = <<>>
    /\ decisions = <<>>
    /\ result = NoResult
    /\ runs = 0
    /\ prev_run = NoPrevRun
    /\ FetchIdle

\* a command that ends before download_videos is called
EndsEarly(how) ==
    /\ pc' = "idle"
    /\ batch' = <<>>
    /\ idx' = 1
    /\ skip_ids' = {}
    /\ channel_id_name_table' = <<>>
    /\ downloaded_videos' = <<>>
    /\ failed_videos' = <<>>
    /\ result' = [status |-> how, downloaded |-> {}, failed |-> {}]
    /\ txn' = NoTxn

\* the call download_videos(list, skip, table), after the caller printed log
CallsDownloadVideos(list, skip, table, log) ==
    /\ pc' = "download"
    /\ batch' = list
    /\ idx' = 1
    /\ skip_ids' = skip
    /\ channel_id_name_table' = table
    /\ downloaded_videos' = <<>>
    /\ failed_videos' = <<>>
    /\ decisions' = log
    /\ result' = NoResult

\* videos_download(channel_username, skip_ids): download_videos_for_channel
DownloadVideosForChannel ==
    \E channel_username \in {"@alpha"}, skip \in SkipLists :
        LET channel_id == get_channel_id_from_username(channels, channel_username)
            list == get_videos(videos, channel_id)
        IN  /\ pc = "idle"
            /\ runs < MaxRuns
            /\ runs' = runs + 1
            /\ cmd' = [op |-> "download_videos_for_channel",
                       channel |-> channel_username]
            /\ IF channel_id = NULL \/ Len(list) = 0
                  THEN /\ EndsEarly("raised")
                       /\ decisions' = <<>>
                       /\ prev_run' = NoPrevRun
                  ELSE /\ CallsDownloadVideos(list, skip,
                            [c \in {channel_id} |-> channel_username], <<>>)
                       /\ txn' = NoTxn
                       /\ prev_run' = IF prev_run.channel = channel_username
                                        THEN prev_run ELSE NoPrevRun
            /\ UNCHANGED <<storeVars, disk, root_path, fetchVars>>

\* what a command prints about one video
Printed(video, skip, decision, end, step) ==
    [id |-> video.id, saved |-> Truthy(video.saved_path),
     exists |-> (video.saved_path \in disk), is_private |-> video.is_private,
     in_skip |-> (video.id \in skip), decision |-> decision, end |-> end,
     step |-> step]

\* videos_download(video_id, mark_unlisted), lines 288-315
VideosDownloadId ==
    \E video_id \in CachedIds \cup UncachedIds, mark_unlisted \in {0, 1},
       found \in BOOLEAN, with_thumbnails \in BOOLEAN :
        LET cached == get_video_by_id(videos, video_id)
            video == CHOOSE v \in cached : TRUE
            owner == get_channel_by_id(channels, video.channel_id)
            new_video == [RemoteVideo(video_id) EXCEPT
                            !.is_unlisted = IF mark_unlisted = 1 THEN 1 ELSE @]
            known == get_channel_by_id(channels, new_video.channel_id)
            channel == IF known # {} THEN CHOOSE c \in known : TRUE
                       ELSE RemoteChannel(with_thumbnails)
            channels1 == save_channel_details(channels, channel)
            videos1 == save_video(videos, new_video)
        IN  /\ pc = "idle"
            /\ runs < MaxRuns
            /\ runs' = runs + 1
            /\ cmd' = [op |-> "videos_download", video_id |-> video_id,
                       found |-> found,
                       cached |-> {v.id : v \in cached}]
            /\ prev_run' = NoPrevRun
            /\ UNCHANGED <<storeVars, disk, root_path, fetchVars>>
            /\ IF cached # {}
                  THEN /\ found /\ with_thumbnails /\ mark_unlisted = 0
                       /\ IF Truthy(video.saved_path)
                             THEN /\ EndsEarly("returned")
                                  /\ decisions' =
                                        <<Printed(video, {}, "saved", "skipped", "none")>>
                             ELSE IF owner = {}
                                     THEN /\ EndsEarly("raised")
                                          /\ decisions' = <<>>
                                     ELSE /\ CallsDownloadVideos(<<video>>, {},
                                                [c \in {video.channel_id} |->
                                                    (CHOOSE o \in owner : TRUE).username],
                                                <<>>)
                                          /\ txn' = NoTxn
                  ELSE IF ~found \/ save_channel_details_raises(channel)
                          THEN /\ EndsEarly("raised")
                               /\ decisions' = <<>>
                          ELSE /\ CallsDownloadVideos(<<new_video>>, {},
                                        [c \in {channel.id} |-> channel.username],
                                        <<>>)
                               /\ txn' = [open |-> TRUE,
                                          channels |-> channels1 \ channels,
                                          videos |-> videos1 \ videos]

\* add_video_to_download_list_or_ignore for the IDs of a file, in order:
\* the list to download, and the tables as the calling connection sees them
RECURSIVE AddVideos(_, _, _, _)
AddVideos(video_ids, found, with_thumbnails, acc) ==
    IF video_ids = <<>> THEN acc
    ELSE
    LET video_id == Head(video_ids)
        cached == get_video_by_id(acc.videos, video_id)
        video == CHOOSE v \in cached : TRUE
        new_video == RemoteVideo(video_id)
        known == get_channel_by_id(acc.channels, new_video.channel_id)
        channel == IF known # {} THEN CHOOSE c \in known : TRUE
                   ELSE RemoteChannel(with_thumbnails)
        next ==
            IF cached # {}
                THEN IF ~Truthy(video.saved_path) \/ video.saved_path \notin disk
                        THEN [acc EXCEPT !.list = Append(@, video)]
                        ELSE [acc EXCEPT !.printed = Append(@,
                                Printed(video, {}, "saved", "skipped", "none"))]
            ELSE IF ~found THEN acc
            ELSE IF save_channel_details_raises(channel)
                THEN [acc EXCEPT !.videos = save_video(@, new_video)]
            ELSE [acc EXCEPT !.videos = save_video(@, new_video),
                             !.channels = save_channel_details(@, channel),
                             !.list = Append(@, new_video)]
    IN  AddVideos(Tail(video_ids), found, with_thumbnails, next)

\* the files of URLs given to videos_download: one line, or two lines
PathFiles ==
    {<<a>> : a \in CachedIds \cup UncachedIds}
        \cup {<<a, b>> : a \in {VideoIdSeq[1]}, b \in {VideoIdSeq[1], "ext1"}}

\* videos_download(path), lines 316-340
VideosDownloadPath ==
    \E video_ids \in PathFiles, found \in BOOLEAN, with_thumbnails \in BOOLEAN :
        LET added == AddVideos(video_ids, found, with_thumbnails,
                        [list |-> <<>>, videos |-> videos, channels |-> channels,
                         printed |-> <<>>])
        IN  /\ pc = "idle"
            /\ runs < MaxRuns
            /\ runs' = runs + 1
            /\ ((\A i \in 1..Len(video_ids) :
                        get_video_by_id(videos, video_ids[i]) # {}) => found)
            /\ cmd' = [op |-> "videos_download_path", video_ids |-> video_ids,
                       found |-> found,
                       cached |-> {r.id : r \in videos}]
            /\ prev_run' = NoPrevRun
            /\ videos' = added.videos
            /\ channels' = added.channels
            /\ CallsDownloadVideos(added.list, {}, get_channels(added.channels),
                                   added.printed)
            /\ txn' = NoTxn
            /\ UNCHANGED <<playlists, playlist_items, call, disk, root_path, fetchVars>>

\* the ids of a list of Video objects
Ids(list) == {list[i].id : i \in 1..Len(list)}

\* the end of the command once download_videos has returned or raised: the
\* finally block of videos_download commits the calling connection
CommandEnds(how, table) ==
    /\ pc' = "idle"
    /\ result' = [status |-> how, downloaded |-> Ids(downloaded_videos'),
                  failed |-> Ids(failed_videos')]
    /\ videos' = table \cup txn.videos
    /\ channels' = channels \cup txn.channels
    /\ txn' = NoTxn
    /\ prev_run' = IF cmd.op = "download_videos_for_channel" /\ how = "returned"
                      THEN [channel |-> cmd.channel,
                            downloaded |-> Ids(downloaded_videos'),
                            intact |-> TRUE]
                      ELSE NoPrevRun

\* download_videos: one turn of the loop over the batch, lines 524-599
DownloadVideo ==
    /\ pc = "download"
    /\ idx <= Len(batch)
    /\ LET video == batch[idx]
           decision == Decide(video, skip_ids, disk)
       IN  IF decision # "attempt"
              THEN /\ decisions' = Append(decisions,
                                      Printed(video, skip_ids, decision, "skipped", "none"))
                   /\ idx' = idx + 1
                   /\ UNCHANGED <<videos, channels, disk, pc, txn, result,
                                  downloaded_videos, failed_videos, prev_run>>
           ELSE IF \/ video.channel_id \notin DOMAIN channel_id_name_table
                   \/ get_channel_download_path_raises
              THEN /\ decisions' = Append(decisions,
                                      Printed(video, skip_ids, decision, "aborted", "path"))
                   /\ idx' = idx + 1
                   /\ UNCHANGED <<disk, downloaded_videos, failed_videos>>
                   /\ CommandEnds("raised", videos)
           ELSE \E o \in Outcomes :
                   LET a == Attempt(video, o, disk, videos, txn.open)
                   IN  /\ decisions' = Append(decisions,
                                          Printed(video, skip_ids, decision, a.end, a.step))
                       /\ idx' = idx + 1
                       /\ disk' = a.files
                       /\ downloaded_videos' =
                             IF a.end = "downloaded"
                                THEN Append(downloaded_videos, a.video)
                                ELSE downloaded_videos
                       /\ failed_videos' =
                             IF a.end = "failed"
                                THEN Append(failed_videos, a.video)
                                ELSE failed_videos
                       /\ IF a.end = "propagates"
                             THEN CommandEnds("raised", a.table)
                             ELSE /\ videos' = a.table
                                  /\ UNCHANGED <<channels, pc, txn, result, prev_run>>
    /\ UNCHANGED <<playlists, playlist_items, call, root_path, fetchVars, cmd, batch,
                   skip_ids, channel_id_name_table, runs>>

\* download_videos returns the two lists, line 600, and the command ends
DownloadReturn ==
    /\ pc = "download"
    /\ idx > Len(batch)
    /\ UNCHANGED <<playlists, playlist_items, call, disk, root_path, fetchVars, cmd, batch,
                   idx, skip_ids, channel_id_name_table, downloaded_videos,
                   failed_videos, decisions, runs>>
    /\ CommandEnds("returned", videos)

\* between two commands the user removes a downloaded file
RemoveFile ==
    /\ pc = "idle"
    /\ runs < MaxRuns
    /\ \E r \in videos :
          /\ r.saved_path \in disk
          /\ disk' = disk \ {r.saved_path}
    /\ prev_run' = [prev_run EXCEPT !.intact = FALSE]
    /\ UNCHANGED <<storeVars, root_path, fetchVars, pc, cmd, txn, batch, idx, skip_ids,
                   channel_id_name_table, downloaded_videos, failed_videos,
                   decisions, result, runs>>

NextDownload ==
    \/ DownloadVideosForChannel
    \/ VideosDownloadId
    \/ VideosDownloadPath
    \/ DownloadVideo
    \/ DownloadReturn
    \/ RemoveFile

SpecDownload == InitDownload /\ [][NextDownload]_vars

(***************************************************************************)
(* download_videos_for_channel run again and again for the one channel.    *)
(***************************************************************************)
NextRerun ==
    \/ DownloadVideosForChannel
    \/ DownloadVideo
    \/ DownloadReturn
    \/ RemoveFile

SpecRerun == InitDownload /\ [][NextRerun]_vars

(***************************************************************************)
(* download_videos called with any batch: each video unsaved, saved with   *)
(* its file on disk or saved with its file gone, private or not, with or   *)
(* without the error of an earlier attempt, and any skip list.             *)
(***************************************************************************)
BatchDir == "/archive/alpha/video"

BatchVideoStates ==
    [saved_path : {"", "here.mp4", "gone.mp4"}, is_private : {0, 1},
     download_error : {NULL, "ERROR: unable to download"}]

\* the row of the i-th video of the batch
BatchRow(i, st) ==
    [VideoRow(VideoIdSeq[i], "UC_A", "title",
              IF st.saved_path = "" THEN ""
              ELSE FilePath(BatchDir, VideoIdSeq[i], "mp4"),
              0, st.is_private)
        EXCEPT !.download_error = st.download_error]

InitBatch ==
    /\ channels = {ChannelRow("UC_A", "@alpha", NULL, NULL, NULL, NULL, NULL, NULL)}
    /\ playlists = {}
    /\ playlist_items = {}
    /\ call = NoCall
    /\ root_path = "/archive"
    /\ \E st \in [1..NumVideos -> BatchVideoStates] :
          /\ videos = {BatchRow(i, st[i]) : i \in 1..NumVideos}
          /\ disk = {FilePath(BatchDir, VideoIdSeq[i], "mp4") :
                        i \in {j \in 1..NumVideos : st[j].saved_path = "here.mp4"}}
          /\ batch = [i \in 1..NumVideos |-> from_row(BatchRow(i, st[i]))]
    /\ skip_ids \in SUBSET CachedIds
    /\ pc = "download"
    /\ cmd = [op |-> "download_videos"]
    /\ txn = NoTxn
    /\ idx = 1
    /\ channel_id_name_table = [c \in {"UC_A"} |-> "@alpha"]
    /\ downloaded_videos = <<>>
    /\ failed_videos = <<>>
    /\ decisions = <<>>
    /\ result = NoResult
    /\ runs = 1
    /\ prev_run = NoPrevRun
    /\ FetchIdle

NextBatch ==
    \/ DownloadVideo
    \/ DownloadReturn

SpecBatch == InitBatch /\ [][NextBatch]_vars

(***************************************************************************)
(* The fetchers called for a cached channel whose remote collections have  *)
(* any number of pages of any size; a loop advances one pass at a time.    *)
(* The items of a collection all have different ids.                       *)
(***************************************************************************)
ItemName(c, p, i) == c \o ToString(p) \o "_" \o ToString(i)

\* the number of items of each page of a collection
PageSizes == UNION {[1..n -> 0..MaxPageItems] : n \in 1..MaxPages}

\* one item on each page
FlatSizes == {[p \in 1..n |-> 1] : n \in 1..MaxPages}

\* search().list(type="video"): the items carry the video ID
RemoteVideos(sizes) ==
    [p \in 1..Len(sizes) |->
        [i \in 1..sizes[p] |-> [id |-> ItemName("v", p, i)]]]

\* playlists().list: id and snippet.title
RemotePlaylists(sizes) ==
    [p \in 1..Len(sizes) |->
        [i \in 1..sizes[p] |-> [id |-> ItemName("PL", p, i), title |-> "mix"]]]

\* playlistItems().list: items of the channel's own, available videos
RemoteItems(c, sizes) ==
    [p \in 1..Len(sizes) |->
        [i \in 1..sizes[p] |->
            [id |-> ItemName(c, p, i), videoId |-> ItemName("v", p, i),
             title |-> "ordinary", position |-> (p - 1) * MaxPageItems + i - 1,
             videoOwnerChannelId |-> "UC_A", videoOwnerChannelTitle |-> "Alpha"]]]

\* the playlists argument of get_playlist_items
FetchPlaylists == <<Playlist("PL1", "mix", "UC_A"), Playlist("PL2", "mix", "UC_A")>>

InitFetch ==
    /\ channels = {ChannelRow("UC_A", "@alpha", NULL, NULL, NULL, NULL, NULL, NULL)}
    /\ videos = {}
    /\ playlists \in {{}, {PlaylistRow("PL0", "UC_A", "cached")}}
    /\ playlist_items = {}
    /\ call = NoCall
    /\ DownloadIdle
    /\ \E sizes \in PageSizes, flat \in FlatSizes :
          remote = [videos |-> RemoteVideos(sizes),
                    playlists |-> RemotePlaylists(sizes),
                    PL1 |-> RemoteItems("a", sizes),
                    PL2 |-> RemoteItems("b", flat)]
    /\ fetch = NoFetch
    /\ sync = NoSync
    /\ columns = Schema

\* the rows of a SELECT as a list
RECURSIVE RowsOf(_)
RowsOf(rows) ==
    IF rows = {} THEN <<>>
    ELSE LET r == CHOOSE x \in rows : TRUE IN <<r>> \o RowsOf(rows \ {r})

\* app.py get_playlists_for_channel, lines 359-370: the cached playlists
CachedPlaylists(table, channel_id) ==
    LET rows == RowsOf({r \in table : r.channel_id = channel_id})
    IN  [i \in 1..Len(rows) |-> Playlist(rows[i].id, rows[i].title, rows[i].channel_id)]

\* a fetcher is called; app.py's get_playlists_for_channel returns the cached
\* playlists when there are any
FetchCall ==
    /\ fetch.pc = "idle"
    /\ \E fn \in Fetchers :
          LET st == Called(fn, "UC_A",
                           IF fn = "yt.get_playlist_items" THEN FetchPlaylists
                           ELSE <<>>,
                           {}, channels, playlists)
              cached == CachedPlaylists(playlists, "UC_A")
          IN  fetch' = IF fn = "app.get_playlists_for_channel" /\ cached # <<>>
                          THEN [st EXCEPT !.out = <<cached>>, !.pc = "returned"]
                          ELSE st
    /\ UNCHANGED <<storeVars, dlVars, remote, columns, sync>>

\* one pass of the loop; app.py commits the playlists of the page, the
\* fetchers of yt.py commit nothing
FetchPass ==
    /\ fetch.pc = "loop"
    /\ Len(fetch.requests) < MaxRequests
    /\ fetch' = Pass(remote, fetch)
    /\ playlists' = fetch'.cursor_playlists
    /\ UNCHANGED <<channels, videos, playlist_items, call, dlVars, remote, columns, sync>>

NextFetch ==
    \/ FetchCall
    \/ FetchPass

SpecFetch == InitFetch /\ [][NextFetch]_vars

(***************************************************************************)
(* videos_get and playlists_get of cmds.py over any cache of the channel   *)
(* "@alpha": nothing, the channel, some of its videos, one of its          *)
(* playlists. On YouTube the channel has two pages of videos, two pages of *)
(* playlists, and a playlist with two pages of items of any kind. An item  *)
(* of an available video names its owner.                                  *)
(***************************************************************************)
GetNames == {"@alpha", "@nobody"}

\* search().list(type="channel", q=channel_name, maxResults=1): the items
SearchChannel(channel_name) ==
    CASE channel_name = "@alpha" -> <<"UC_A">>
      [] channel_name = "@beta" -> <<"UC_B">>
      [] OTHER -> <<>>

\* the name under which the owner of the external videos is found
OwnerNames == {"@beta"}

\* what YouTube holds for the channel asked: the pages of `remote` for
\* UC_A, the one upload "ext1" for UC_B
UploadsOf(channel_id) ==
    IF channel_id = "UC_B" THEN [remote EXCEPT !.videos = <<<<[id |-> "ext1"]>>>>]
    ELSE remote

RemoteChannelTitle(id) ==
    CASE id = "UC_A" -> "Alpha"
      [] id = "UC_B" -> "Beta"
      [] OTHER -> NULL

ItemKinds ==
    {k \in [title : {"ordinary"} \cup Sentinels, owner : {NULL} \cup ChannelIds,
            videoId : {"vid1", "vid9"}] :
        k.title \notin Sentinels => k.owner # NULL}

ItemKinds2 == {k \in ItemKinds : k.videoId = "vid9" /\ k.owner # "UC_A"}

RemoteItem(id, position, k) ==
    [id |-> id, videoId |-> k.videoId, title |-> k.title, position |-> position,
     videoOwnerChannelId |-> k.owner,
     videoOwnerChannelTitle |-> RemoteChannelTitle(k.owner)]

GetCaches ==
    {[channels |-> {}, videos |-> {}, playlists |-> {}]} \cup
    {[channels |-> {ChannelRow("UC_A", "@alpha", NULL, NULL, NULL, NULL, NULL, NULL)},
      videos |-> v, playlists |-> p] :
        v \in SUBSET {VideoRow("vid1", "UC_A", "title of vid1", "", 0, 0),
                      VideoRow("vid2", "UC_A", "title of vid2", "", 0, 0)},
        p \in {{}, {PlaylistRow("PL1", "UC_A", "mix")}}}

InitGet ==
    /\ \E cache \in GetCaches :
          /\ channels = cache.channels
          /\ videos = cache.videos
          /\ playlists = cache.playlists
    /\ playlist_items = {}
    /\ call = NoCall
    /\ DownloadIdle
    /\ \E k1 \in ItemKinds, k2 \in ItemKinds2 :
          remote = [videos |-> <<<<[id |-> "vid1"]>>, <<[id |-> "vid2"]>>>>,
                    playlists |-> <<<<[id |-> "PL1", title |-> "mix"]>>,
                                    <<[id |-> "PL2", title |-> "empty"]>>>>,
                    PL1 |-> <<<<RemoteItem("it1", 0, k1)>>,
                              <<RemoteItem("it2", 1, k2)>>>>,
                    PL2 |-> <<<<>>>>]
    /\ fetch = NoFetch
    /\ sync = NoSync
    /\ columns = Schema

RECURSIVE SaveVideos(_, _, _)
SaveVideos(table, list, i) ==
    IF i > Len(list) THEN table
    ELSE SaveVideos(save_video(table, list[i]), list, i + 1)

RECURSIVE SaveItems(_, _, _, _)
SaveItems(table, playlist_id, items, i) ==
    IF i > Len(items) THEN table
    ELSE SaveItems(save_playlist_item(table, playlist_id, items[i]),
                   playlist_id, items, i + 1)

RECURSIVE SaveAllItems(_, _, _)
SaveAllItems(table, list, i) ==
    IF i > Len(list) THEN table
    ELSE SaveAllItems(SaveItems(table, list[i].id, list[i].items, 1), list, i + 1)

\* the cache holds videos of the channel of that name
VideosCached(channel_name) ==
    \E c \in channels : /\ c.username = channel_name
                        /\ \E v \in videos : v.channel_id = c.id

\* the cache holds playlists of the channel of that name
PlaylistsCached(channel_name) ==
    \E c \in channels : /\ c.username = channel_name
                        /\ \E p \in playlists : p.channel_id = c.id

getUnchanged ==
    <<call, disk, root_path, pc, txn, batch, idx, skip_ids,
      channel_id_name_table, downloaded_videos, failed_videos, decisions,
      prev_run, remote, columns, sync>>

\* videos_get saving the channel before the search result is examined
VideosGet_saving_unresolved ==
    \E channel_name \in GetNames :
        /\ pc = "idle"
        /\ runs < MaxRuns
        /\ LET found == SearchChannel(channel_name)
               channel_id == IF found = <<>> THEN NULL ELSE found[1]
               st == Run(remote, Called("yt.get_channel_videos", channel_id,
                                        <<>>, {}, channels, playlists))
           IN  /\ channels' = save_channel(channels, channel_id, channel_name)
               /\ IF found = <<>>
                     THEN /\ fetch' = [NoFetch EXCEPT !.searches = 1]
                          /\ result' = [status |-> "raised"]
                          /\ UNCHANGED videos
                     ELSE /\ fetch' = [st EXCEPT !.searches = 1]
                          /\ videos' = SaveVideos(videos, st.out[1], 1)
                          /\ result' = [status |-> "returned"]
        /\ cmd' = [op |-> "videos_get", channel_name |-> channel_name,
                   cached |-> VideosCached(channel_name)]
        /\ runs' = runs + 1
        /\ UNCHANGED <<playlists, playlist_items, getUnchanged>>

\* videos_get: the name is searched, the channel saved, every page of the
\* channel's videos fetched, every video saved, and the whole committed
videos_get_of(channel_name) ==
    /\ pc = "idle"
    /\ runs < MaxRuns
    /\ LET found == SearchChannel(channel_name)
           channel_id == found[1]
           st == Run(UploadsOf(channel_id),
                     Called("yt.get_channel_videos", channel_id,
                            <<>>, {}, channels, playlists))
       IN  IF found = <<>>
              THEN /\ fetch' = [NoFetch EXCEPT !.searches = 1]
                   /\ result' = [status |-> "raised"]
                   /\ UNCHANGED <<channels, videos>>
              ELSE /\ fetch' = [st EXCEPT !.searches = 1]
                   /\ channels' = save_channel(channels, channel_id, channel_name)
                   /\ videos' = SaveVideos(videos, st.out[1], 1)
                   /\ result' = [status |-> "returned"]
    /\ cmd' = [op |-> "videos_get", channel_name |-> channel_name,
               cached |-> VideosCached(channel_name)]
    /\ runs' = runs + 1
    /\ UNCHANGED <<playlists, playlist_items, getUnchanged>>

\* videos_get with the name of the channel of the cache, or an unknown name
VideosGet == \E channel_name \in GetNames : videos_get_of(channel_name)

\* videos_get with the name of the channel that owns the external videos
VideosGetOwner == \E channel_name \in OwnerNames : videos_get_of(channel_name)

\* playlists_get: the channel ID is read from the cache, every page of the
\* channel's playlists and of each playlist's items fetched, the items
\* classified against the cached video IDs, all saved and committed
PlaylistsGet ==
    \E channel_name \in GetNames :
        /\ runs < MaxRuns
        /\ LET channel_id == get_channel_id_from_username(channels, channel_name)
               st1 == Run(remote, Called("yt.get_playlists_for_channel", channel_id,
                                         <<>>, {}, channels, playlists))
               video_ids == {r.id : r \in videos}
               st2 == Run(remote, Called("yt.get_playlist_items", channel_id,
                                         st1.out[1], video_ids, channels, playlists))
           IN  IF channel_id = NULL
                  THEN /\ fetch' = NoFetch
                       /\ result' = [status |-> "raised"]
                       /\ UNCHANGED <<channels, playlists, playlist_items>>
                  ELSE /\ fetch' = [st2 EXCEPT !.requests = st1.requests \o @]
                       /\ channels' = st2.cursor_channels
                       /\ playlists' = SavePlaylists(playlists, st2.out, 1)
                       /\ playlist_items' = SaveAllItems(playlist_items, st2.out, 1)
                       /\ result' = [status |-> "returned"]
        /\ cmd' = [op |-> "playlists_get", channel_name |-> channel_name,
                   cached |-> PlaylistsCached(channel_name)]
        /\ runs' = runs + 1
        /\ UNCHANGED <<videos, getUnchanged>>

NextGet ==
    \/ VideosGet
    \/ PlaylistsGet

SpecGet == InitGet /\ [][NextGet]_vars

\* the same with videos_get for the owner of an external playlist item
NextOwner ==
    \/ VideosGet
    \/ VideosGetOwner
    \/ PlaylistsGet

SpecOwner == InitGet /\ [][NextOwner]_vars

(***************************************************************************)
(* The commands that resolve a channel name or a video ID on YouTube, on   *)
(* the cache of InitDownload: the name or the ID may not exist there.      *)
(***************************************************************************)
NextResolve ==
    \/ VideosGet
    \/ VideosDownloadId
    \/ VideosDownloadPath
    \/ DownloadVideo
    \/ DownloadReturn

SpecResolve == InitDownload /\ [][NextResolve]_vars

(***************************************************************************)
(* channels_sync over a list of channel names, cmds.py lines 237-247. A    *)
(* request to YouTube may raise (quota, network): of the requests of one   *)
(* command the first `budget` succeed.                                     *)
(***************************************************************************)
Budgets == 0..MaxRequests

\* a fetcher of yt.py run until it returns or a request raises
RECURSIVE RunFor(_, _, _)
RunFor(rem, st, budget) ==
    IF st.pc # "loop" THEN st
    ELSE IF Len(st.requests) >= budget THEN [st EXCEPT !.pc = "raised"]
    ELSE RunFor(rem, Pass(rem, st), budget)

\* the items a fetcher has retrieved so far
RECURSIVE Retrieved(_, _)
Retrieved(st, i) ==
    IF st.fn # "yt.get_playlist_items" THEN st.items
    ELSE IF i > Len(st.out) THEN st.items
    ELSE st.out[i].items \o Retrieved(st, i + 1)

\* videos_get without conn.commit(): what it saved is lost when the
\* connection is closed
videos_get_uncommitted(chs, vids, rem, channel_name, budget) ==
    LET found == SearchChannel(channel_name)
        channel_id == found[1]
        st == RunFor(rem[channel_id],
                     Called("yt.get_channel_videos", channel_id, <<>>, {},
                            save_channel(chs, channel_id, channel_name), {}),
                     budget - 1)
    IN  [status |-> IF budget = 0 \/ found = <<>> \/ st.pc = "raised"
                       THEN "raised" ELSE "returned",
         channels |-> chs, videos |-> vids,
         fetch |-> IF budget = 0 \/ found = <<>>
                      THEN [NoFetch EXCEPT !.searches = 1]
                      ELSE [st EXCEPT !.searches = 1]]

\* videos_get, lines 343-352, on the tables chs and vids: how it ends, the
\* tables after it and the fetcher. Nothing is committed before line 350.
videos_get(chs, vids, rem, channel_name, budget) ==
    LET found == SearchChannel(channel_name)
        channel_id == found[1]
        st == RunFor(rem[channel_id],
                     Called("yt.get_channel_videos", channel_id, <<>>, {},
                            save_channel(chs, channel_id, channel_name), {}),
                     budget - 1)
    IN  IF budget = 0 \/ found = <<>>
            THEN [status |-> "raised", channels |-> chs, videos |-> vids,
                  fetch |-> [NoFetch EXCEPT !.searches = 1]]
        ELSE IF st.pc = "raised"
            THEN [status |-> "raised", channels |-> chs, videos |-> vids,
                  fetch |-> [st EXCEPT !.searches = 1]]
        ELSE [status |-> "returned",
              channels |-> save_channel(chs, channel_id, channel_name),
              videos |-> SaveVideos(vids, st.out[1], 1),
              fetch |-> [st EXCEPT !.searches = 1]]

\* playlists_get, lines 394-410: how it ends, the tables after it and the
\* fetcher. Nothing is committed before line 408.
playlists_get(chs, vids, pls, its, rem, channel_name, budget) ==
    LET channel_id == get_channel_id_from_username(chs, channel_name)
        st1 == RunFor(rem[channel_id],
                      Called("yt.get_playlists_for_channel", channel_id,
                             <<>>, {}, chs, pls),
                      budget)
        video_ids == {r.id : r \in vids}
        st2 == RunFor(rem[channel_id],
                      Called("yt.get_playlist_items", channel_id,
                             st1.out[1], video_ids, chs, pls),
                      budget - Len(st1.requests))
        unchanged == [channels |-> chs, playlists |-> pls, playlist_items |-> its]
    IN  IF channel_id = NULL
            THEN [status |-> "raised", fetch |-> NoFetch] @@ unchanged
        ELSE IF st1.pc = "raised"
            THEN [status |-> "raised", fetch |-> st1] @@ unchanged
        ELSE IF st2.pc = "raised"
            THEN [status |-> "raised",
                  fetch |-> [st2 EXCEPT !.requests = st1.requests \o @]]
                 @@ unchanged
        ELSE [status |-> "returned",
              fetch |-> [st2 EXCEPT !.requests = st1.requests \o @],
              channels |-> st2.cursor_channels,
              playlists |-> SavePlaylists(pls, st2.out, 1),
              playlist_items |-> SaveAllItems(its, st2.out, 1)]

\* report.txt was not written
NoFile == [written |-> FALSE]

\* SyncReport.__init__ (the times are left out); a dict is the list of its
\* items in insertion order
SyncReport == [videos_downloaded |-> <<>>, failed_downloads |-> <<>>]

\* dict[key] = value
DictSet(dict, key, value) ==
    IF \E i \in 1..Len(dict) : dict[i].key = key
        THEN [i \in 1..Len(dict) |->
                IF dict[i].key = key THEN [key |-> key, value |-> value]
                ELSE dict[i]]
        ELSE Append(dict, [key |-> key, value |-> value])

\* the lines of one section of a report: per channel its name and one line
\* per video, or the line that says there is none
ReportSection(dict, failed, none) ==
    [i \in 1..Len(dict) |->
        [channel |-> dict[i].key,
         lines |-> IF Len(dict[i].value) > 0
                      THEN [j \in 1..Len(dict[i].value) |->
                              LET video == dict[i].value[j]
                              IN  video.id \o ": " \o video.title \o
                                  (IF failed THEN " -- " \o video.download_error
                                   ELSE "")]
                      ELSE <<none>>]]

\* SyncReport._generate_report
SyncReport_generate_report(report) ==
    [written |-> TRUE,
     downloaded |-> ReportSection(report.videos_downloaded, FALSE,
                                  "No videos downloaded"),
     failed |-> ReportSection(report.failed_downloads, TRUE,
                              "No failed downloads")]

\* the body of the loop of channels_sync: the calls, in order
Stages_playlists_first ==
    <<"playlists_get", "videos_get", "download_videos_for_channel">>

Stages == <<"videos_get", "playlists_get", "download_videos_for_channel">>

Event(channel_name, stage, ev) == [channel |-> channel_name, stage |-> stage, ev |-> ev]

\* the statement after a call that returned: the next call for the channel,
\* the first call for the next channel, or the report after the loop
NextStep(s) ==
    IF s.step < Len(Stages) THEN [s EXCEPT !.step = @ + 1]
    ELSE IF s.i < Len(s.names) THEN [s EXCEPT !.i = @ + 1, !.step = 1]
    ELSE [s EXCEPT !.stage = "report"]

\* a call of the loop body that ran to its end: channels_sync catches
\* nothing, so an exception leaves it
Ran(s, stage, status) ==
    LET channel_name == s.names[s.i]
        logged == [s EXCEPT !.log = @ \o <<Event(channel_name, stage, "begin"),
                                           Event(channel_name, stage, status)>>]
    IN  IF status = "raised" THEN [logged EXCEPT !.stage = "raised"]
        ELSE NextStep(logged)

SyncNames ==
    {<<>>, <<"@alpha">>, <<"@alpha", "@beta">>, <<"@beta", "@alpha">>,
     <<"@nobody", "@alpha">>}

SyncItemKinds ==
    {k \in ItemKinds : k.title = "ordinary" /\ k.videoId = "vid9" /\ k.owner # NULL}

SyncCaches ==
    {[channels |-> {}, videos |-> {}],
     [channels |-> {ChannelRow("UC_A", "@alpha", NULL, NULL, NULL, NULL, NULL, NULL)},
      videos |-> {VideoRow("vid1", "UC_A", "title of vid1", "", 0, 0)}]}

InitSync ==
    /\ \E cache \in SyncCaches :
          /\ channels = cache.channels
          /\ videos = cache.videos
    /\ playlists = {}
    /\ playlist_items = {}
    /\ call = NoCall
    /\ disk = {}
    /\ root_path \in RootPaths
    /\ pc = "idle"
    /\ cmd = NoCall
    /\ txn = NoTxn
    /\ batch = <<>>
    /\ idx = 1
    /\ skip_ids = {}
    /\ channel_id_name_table = <<>>
    /\ downloaded_videos = <<>>
    /\ failed_videos = <<>>
    /\ decisions = <<>>
    /\ result = NoResult
    /\ runs = 0
    /\ prev_run = NoPrevRun
    /\ \E k \in SyncItemKinds :
          remote = [UC_A |-> [videos |-> <<<<[id |-> "vid1"]>>, <<[id |-> "vid2"]>>>>,
                              playlists |-> <<<<[id |-> "PL1", title |-> "mix"]>>>>,
                              PL1 |-> <<<<RemoteItem("it1", 0, k)>>>>],
                    UC_B |-> [videos |-> <<<<[id |-> "vid3"]>>>>,
                              playlists |-> <<<<>>>>]]
    /\ fetch = NoFetch
    /\ sync = NoSync
    /\ columns = Schema

\* channels_sync(channel_names) is called, line 237
ChannelsSync ==
    /\ sync.stage = "none"
    /\ \E channel_names \in SyncNames :
          sync' = [stage |-> IF channel_names = <<>> THEN "report" ELSE "running",
                   names |-> channel_names, i |-> 1, step |-> 1,
                   report |-> SyncReport, log |-> <<>>, file |-> NoFile]
    /\ UNCHANGED <<storeVars, dlVars, remote, columns, fetch>>

\* line 240: videos_get(youtube, channel_name)
SyncVideosGet ==
    /\ sync.stage = "running"
    /\ Stages[sync.step] = "videos_get"
    /\ \E budget \in Budgets :
          LET channel_name == sync.names[sync.i]
              r == videos_get(channels, videos, remote, channel_name, budget)
          IN  /\ channels' = r.channels
              /\ videos' = r.videos
              /\ fetch' = r.fetch
              /\ cmd' = [op |-> "videos_get", channel_name |-> channel_name,
                         cached |-> VideosCached(channel_name)]
              /\ result' = [status |-> r.status]
              /\ sync' = Ran(sync, "videos_get", r.status)
    /\ UNCHANGED <<playlists, playlist_items, call, disk, root_path, pc, txn,
                   batch, idx, skip_ids, channel_id_name_table,
                   downloaded_videos, failed_videos, decisions, runs, prev_run,
                   remote, columns>>

\* line 241: playlists_get(youtube, channel_name)
SyncPlaylistsGet ==
    /\ sync.stage = "running"
    /\ Stages[sync.step] = "playlists_get"
    /\ \E budget \in Budgets :
          LET channel_name == sync.names[sync.i]
              r == playlists_get(channels, videos, playlists, playlist_items,
                                 remote, channel_name, budget)
          IN  /\ channels' = r.channels
              /\ playlists' = r.playlists
              /\ playlist_items' = r.playlist_items
              /\ fetch' = r.fetch
              /\ cmd' = [op |-> "playlists_get", channel_name |-> channel_name,
                         cached |-> PlaylistsCached(channel_name)]
              /\ result' = [status |-> r.status]
              /\ sync' = Ran(sync, "playlists_get", r.status)
    /\ UNCHANGED <<videos, call, disk, root_path, pc, txn, batch, idx, skip_ids,
                   channel_id_name_table, downloaded_videos, failed_videos,
                   decisions, runs, prev_run, remote, columns>>

\* line 242: download_videos_for_channel(channel_name, []) is called
SyncDownload ==
    /\ sync.stage = "running"
    /\ Stages[sync.step] = "download_videos_for_channel"
    /\ pc = "idle"
    /\ LET channel_name == sync.names[sync.i]
           channel_id == get_channel_id_from_username(channels, channel_name)
           list == get_videos(videos, channel_id)
       IN  /\ cmd' = [op |-> "download_videos_for_channel", channel |-> channel_name]
           /\ IF channel_id = NULL \/ Len(list) = 0
                 THEN /\ EndsEarly("raised")
                      /\ decisions' = <<>>
                      /\ sync' = Ran(sync, "download_videos_for_channel", "raised")
                 ELSE /\ CallsDownloadVideos(list, {},
                            [c \in {channel_id} |-> channel_name], <<>>)
                      /\ txn' = NoTxn
                      /\ sync' = [sync EXCEPT
                            !.stage = "downloading",
                            !.log = Append(@, Event(channel_name,
                                        "download_videos_for_channel", "begin"))]
    /\ UNCHANGED <<storeVars, disk, root_path, runs, prev_run, remote, columns, fetch>>

\* lines 242-244: download_videos_for_channel returns the two lists and the
\* report takes them
SyncDownloadReturn ==
    /\ sync.stage = "downloading"
    /\ pc = "download"
    /\ idx > Len(batch)
    /\ pc' = "idle"
    /\ result' = [status |-> "returned", downloaded |-> Ids(downloaded_videos),
                  failed |-> Ids(failed_videos)]
    /\ LET channel_name == sync.names[sync.i]
       IN  sync' = NextStep([sync EXCEPT
                !.stage = "running",
                !.log = Append(@, Event(channel_name,
                            "download_videos_for_channel", "returned")),
                !.report = [videos_downloaded |->
                                DictSet(@.videos_downloaded, channel_name,
                                        downloaded_videos),
                            failed_downloads |->
                                DictSet(@.failed_downloads, channel_name,
                                        failed_videos)]])
    /\ UNCHANGED <<storeVars, disk, root_path, cmd, txn, batch, idx, skip_ids,
                   channel_id_name_table, downloaded_videos, failed_videos,
                   decisions, runs, prev_run, remote, columns, fetch>>

\* lines 245-247: the report is printed and saved as report.txt
SyncReportSave ==
    /\ sync.stage = "report"
    /\ sync' = [sync EXCEPT !.stage = "done",
                            !.file = SyncReport_generate_report(sync.report)]
    /\ UNCHANGED <<storeVars, dlVars, remote, columns, fetch>>

NextSync ==
    \/ ChannelsSync
    \/ SyncVideosGet
    \/ SyncPlaylistsGet
    \/ SyncDownload
    \/ DownloadVideo
    \/ SyncDownloadReturn
    \/ SyncReportSave

SpecSync == InitSync /\ [][NextSync]_vars

\* channels_sync was left by an exception
SyncRaised ==
    \/ sync.stage = "raised"
    \/ sync.stage = "downloading" /\ pc = "idle"

(***************************************************************************)
(* channels_delete, cmds.py lines 109-134, over a cache of two channels    *)
(* whose playlists hold items of each other's videos. A statement of the   *)
(* transaction may raise (sqlite3.Error).                                  *)
(***************************************************************************)
\* the four tables as one value
Tables(chs, vids, pls, its) ==
    [channels |-> chs, videos |-> vids, playlists |-> pls, playlist_items |-> its]

\* channels_delete without the call of db.delete_videos
DeleteStatements_videos_kept == <<"playlist_items", "playlists", "channels">>

\* db.delete_playlists and the two calls after it: the tables the DELETE
\* statements name, in the order they are executed
DeleteStatements == <<"playlist_items", "playlists", "videos", "channels">>

\* db.delete_playlists, first statement: DELETE FROM playlist_items WHERE
\* channel_id = ?
delete_playlist_items(table, channel_id) == {r \in table : r.channel_id # channel_id}

\* db.delete_playlists, second statement: DELETE FROM playlists WHERE
\* channel_id = ?
delete_playlists(table, channel_id) == {r \in table : r.channel_id # channel_id}

\* db.delete_videos: the videos of the channel
delete_videos(table, channel_id) == {r \in table : r.channel_id # channel_id}

\* db.delete_channel: the channel
delete_channel(table, channel_id) == {r \in table : r.id # channel_id}

\* the tables after the first k statements
RECURSIVE Executed(_, _, _)
Executed(tables, channel_id, k) ==
    IF k = 0 THEN tables
    ELSE LET t == Executed(tables, channel_id, k - 1)
             stmt == DeleteStatements[k]
         IN  CASE stmt = "playlist_items" ->
                    [t EXCEPT !.playlist_items = delete_playlist_items(@, channel_id)]
               [] stmt = "playlists" ->
                    [t EXCEPT !.playlists = delete_playlists(@, channel_id)]
               [] stmt = "videos" ->
                    [t EXCEPT !.videos = delete_videos(@, channel_id)]
               [] OTHER ->
                    [t EXCEPT !.channels = delete_channel(@, channel_id)]

\* conn.rollback() forgotten: what the statements did stays
conn_rollback_missing(committed, pending) == pending

\* conn.rollback(), line 130
conn_rollback(committed, pending) == committed

\* what raises: nothing (0), the k-th statement, or conn.commit()
FailPoints == 0..(Len(DeleteStatements) + 1)

\* lines 121-134: the try block; the statements that were executed and the
\* tables the connection leaves behind
Transaction(committed, channel_id, fail_at) ==
    LET n == IF fail_at = 0 THEN Len(DeleteStatements) ELSE fail_at - 1
        pending == Executed(committed, channel_id, n)
    IN  IF fail_at = 0
            THEN [tables |-> pending, outcome |-> "deleted",
                  statements |-> DeleteStatements]
            ELSE [tables |-> conn_rollback(committed, pending), outcome |-> "error",
                  statements |-> SubSeq(DeleteStatements, 1, n)]

\* user_input.lower()
Lower(s) ==
    CASE s = "Y" -> "y"
      [] s = "N" -> "n"
      [] OTHER -> s

UserInputs == {"y", "Y", "n", "N", "yes", ""}

DeleteNames == {"@alpha", "@beta", "@nobody"}

DeleteChannels ==
    {ChannelRow("UC_A", "@alpha", NULL, NULL, NULL, NULL, NULL, NULL),
     ChannelRow("UC_B", "@beta", NULL, NULL, NULL, NULL, NULL, NULL)}

DeleteVideos ==
    {VideoRow("vid1", "UC_A", "title of vid1", "", 0, 0),
     VideoRow("vid2", "UC_A", "title of vid2", "", 0, 0),
     VideoRow("vid3", "UC_B", "title of vid3", "", 0, 0)}

DeletePlaylists == {PlaylistRow("PL1", "UC_A", "mix"), PlaylistRow("PL2", "UC_B", "mix")}

\* items as yt.get_playlist_items builds them: in PL1 a video of the channel
\* and an external one, in PL2 an external one
DeleteItems ==
    {PlaylistItemRow("PL1", PlaylistItem("it1", "vid1", "UC_A", "title of vid1", 0, 0, 0, 0, 0)),
     PlaylistItemRow("PL1", PlaylistItem("it2", "vid3", "UC_B", "title of vid3", 1, 0, 0, 1, 0)),
     PlaylistItemRow("PL2", PlaylistItem("it3", "vid1", "UC_A", "title of vid1", 0, 0, 0, 1, 0))}

\* the caches the get commands leave: a video or a playlist has its channel,
\* an item has its playlist
DeleteCaches ==
    {t \in [channels : SUBSET DeleteChannels, videos : SUBSET DeleteVideos,
            playlists : SUBSET DeletePlaylists, playlist_items : SUBSET DeleteItems] :
        /\ \A v \in t.videos : \E c \in t.channels : c.id = v.channel_id
        /\ \A p \in t.playlists : \E c \in t.channels : c.id = p.channel_id
        /\ \A i \in t.playlist_items : \E p \in t.playlists : p.id = i.playlist_id}

InitDelete ==
    /\ \E t \in DeleteCaches :
          /\ channels = t.channels
          /\ videos = t.videos
          /\ playlists = t.playlists
          /\ playlist_items = t.playlist_items
    /\ call = NoCall
    /\ DownloadIdle
    /\ FetchIdle

\* channels_delete(channel_username)
ChannelsDelete ==
    \E channel_username \in DeleteNames, user_input \in UserInputs,
       fail_at \in FailPoints :
        LET channel_id == get_channel_id_from_username(channels, channel_username)
            list == get_videos(videos, channel_id)
            before == Tables(channels, videos, playlists, playlist_items)
            t == Transaction(before, channel_id, fail_at)
            asked == channel_id # NULL /\ Len(list) > 0
            confirmed == asked /\ Lower(user_input) = "y"
            after == IF confirmed THEN t.tables ELSE before
        IN  /\ runs < MaxRuns
            /\ runs' = runs + 1
            /\ cmd' = [op |-> "channels_delete", channel_username |-> channel_username,
                       channel_id |-> channel_id,
                       shown |-> IF asked THEN <<channel_id, Len(list)>> ELSE <<>>,
                       user_input |-> IF asked THEN user_input ELSE NULL,
                       statements |-> IF confirmed THEN t.statements ELSE <<>>,
                       before |-> before]
            /\ result' = [status |-> IF ~asked THEN "raised" ELSE "returned",
                          outcome |-> IF ~asked THEN "raised"
                                      ELSE IF ~confirmed THEN "cancelled"
                                      ELSE t.outcome]
            /\ channels' = after.channels
            /\ videos' = after.videos
            /\ playlists' = after.playlists
            /\ playlist_items' = after.playlist_items
            /\ UNCHANGED <<call, disk, root_path, pc, txn, batch, idx, skip_ids,
                           channel_id_name_table, downloaded_videos, failed_videos,
                           decisions, prev_run, fetchVars>>

\* playlists_delete(channel_name), lines 413-420
PlaylistsDelete ==
    \E channel_name \in DeleteNames :
        LET channel_id == get_channel_id_from_username(channels, channel_name)
            found == channel_id # NULL
        IN  /\ runs < MaxRuns
            /\ runs' = runs + 1
            /\ cmd' = [op |-> "playlists_delete", channel_username |-> channel_name,
                       channel_id |-> channel_id,
                       before |-> Tables(channels, videos, playlists, playlist_items)]
            /\ result' = [status |-> IF found THEN "returned" ELSE "raised"]
            /\ playlist_items' = IF found
                                    THEN delete_playlist_items(playlist_items, channel_id)
                                    ELSE playlist_items
            /\ playlists' = IF found THEN delete_playlists(playlists, channel_id)
                             ELSE playlists
            /\ UNCHANGED <<channels, videos, call, disk, root_path, pc, txn, batch,
                           idx, skip_ids, channel_id_name_table, downloaded_videos,
                           failed_videos, decisions, prev_run, fetchVars>>

NextDelete ==
    \/ ChannelsDelete
    \/ PlaylistsDelete

SpecDelete == InitDelete /\ [][NextDelete]_vars

(***************************************************************************)
(* The UPDATE statements of db.py called one after another on a cache of   *)
(* up to two channels and three videos, also for keys that are not stored. *)
(***************************************************************************)
\* UPDATE videos SET saved_path = ? without the WHERE clause
save_video_path_all_rows(table, full_video_path, video_id) ==
    {[r EXCEPT !.saved_path = full_video_path] : r \in table}

\* save_video_path: UPDATE videos SET saved_path = ? WHERE id = ?
save_video_path(table, full_video_path, video_id) ==
    {IF r.id = video_id THEN [r EXCEPT !.saved_path = full_video_path] ELSE r :
        r \in table}

\* save_updated_channel_details: UPDATE channels SET username, published_at,
\* title, description and the three thumbnails WHERE id = ?; encoding a
\* missing thumbnail raises before the statement
save_updated_channel_details(table, channel) ==
    IF save_channel_details_raises(channel) THEN table
    ELSE {IF r.id = channel.id
             THEN ChannelRow(r.id, channel.username, channel.published_at,
                      channel.title, channel.description,
                      save_thumbnail_as_png_byte_array(channel.large_thumbnail),
                      save_thumbnail_as_png_byte_array(channel.medium_thumbnail),
                      save_thumbnail_as_png_byte_array(channel.small_thumbnail))
             ELSE r : r \in table}

UpdateIds == {"vid1", "vid3", "vid5"}

InitUpdate ==
    /\ channels \in SUBSET DeleteChannels
    /\ videos \in SUBSET DeleteVideos
    /\ playlists = {}
    /\ playlist_items = {}
    /\ call = NoCall
    /\ DownloadIdle
    /\ FetchIdle

\* the call of an UPDATE function of db.py: the fields its statement sets
Updates(op, id, fields) ==
    /\ runs < MaxRuns
    /\ runs' = runs + 1
    /\ call' = [op |-> op, id |-> id, fields |-> fields]
    /\ UNCHANGED <<playlists, playlist_items, disk, root_path, pc, cmd, txn, batch,
                   idx, skip_ids, channel_id_name_table, downloaded_videos,
                   failed_videos, decisions, result, prev_run, fetchVars>>

SaveVideoPath ==
    \E video_id \in UpdateIds, full_video_path \in {"/archive/alpha/video/moved.mp4"} :
        /\ videos' = save_video_path(videos, full_video_path, video_id)
        /\ Updates("save_video_path", video_id, {"saved_path"})
        /\ UNCHANGED channels

SaveDownloadedVideoDetails ==
    \E video_id \in UpdateIds :
        LET video == [Video(video_id, "another title", "UC_B", "/archive/a.mp4", 1, 1)
                        EXCEPT !.duration = MediaDuration,
                               !.resolution = MediaResolution,
                               !.download_error = "stale"]
        IN  /\ videos' = save_downloaded_video_details(videos, video)
            /\ Updates("save_downloaded_video_details", video_id,
                       {"saved_path", "duration", "resolution"})
            /\ UNCHANGED channels

SaveDownloadError ==
    \E video_id \in UpdateIds, download_error \in {ErrorText.transfer} :
        /\ videos' = save_download_error(videos, video_id, download_error)
        /\ Updates("save_download_error", video_id, {"download_error"})
        /\ UNCHANGED channels

SaveUpdatedChannelDetails ==
    \E channel \in StoreChannelArgs :
        /\ channels' = save_updated_channel_details(channels, channel)
        /\ Updates("save_updated_channel_details", channel.id,
                   {"username", "published_at", "title", "description",
                    "large_thumbnail", "medium_thumbnail", "small_thumbnail"})
        /\ UNCHANGED videos

NextUpdate ==
    \/ SaveVideoPath
    \/ SaveDownloadedVideoDetails
    \/ SaveDownloadError
    \/ SaveUpdatedChannelDetails

SpecUpdate == InitUpdate /\ [][NextUpdate]_vars

(***************************************************************************)
(* The lookups of db.py on the caches of InitDelete, for keys that are     *)
(* stored and keys that are not.                                           *)
(***************************************************************************)
\* get_channel_by_username: the Channel of the row; the empty set stands
\* for None
get_channel_by_username(table, username) ==
    {from_row_with_image_data(r) : r \in {x \in table : x.username = username}}

\* db.get_playlists: the playlists of the channel; the code raises when
\* there is none (here: the empty sequence)
get_playlists(table, channel_id) == CachedPlaylists(table, channel_id)

\* a lookup was called and raised, or returned this value (the empty set is
\* None)
Answers(fn, key, status, value) ==
    /\ runs < MaxRuns
    /\ runs' = runs + 1
    /\ cmd' = [op |-> fn, key |-> key]
    /\ result' = [status |-> status, value |-> value]
    /\ UNCHANGED <<storeVars, disk, root_path, pc, txn, batch, idx, skip_ids,
                   channel_id_name_table, downloaded_videos, failed_videos,
                   decisions, prev_run, fetchVars>>

GetChannelById ==
    \E channel_id \in {"UC_A", "UC_B"} :
        Answers("get_channel_by_id", channel_id, "returned",
                get_channel_by_id(channels, channel_id))

GetChannelByUsername ==
    \E username \in DeleteNames :
        Answers("get_channel_by_username", username, "returned",
                get_channel_by_username(channels, username))

GetVideoById ==
    \E video_id \in UpdateIds :
        Answers("get_video_by_id", video_id, "returned",
                get_video_by_id(videos, video_id))

\* get_playlists raises when the SELECT returns no row, lines 384-387
GetPlaylists ==
    \E channel_id \in {"UC_A", "UC_B"} :
        LET list == get_playlists(playlists, channel_id)
        IN  Answers("get_playlists", channel_id,
                    IF Len(list) = 0 THEN "raised" ELSE "returned", list)

NextLookup ==
    \/ GetChannelById
    \/ GetChannelByUsername
    \/ GetVideoById
    \/ GetPlaylists

SpecLookup == InitDelete /\ [][NextLookup]_vars

(***************************************************************************)
(* playlists_ls of cmds.py, with videos_get and playlists_get, on the      *)
(* caches of "@alpha": nothing fetched yet, or the playlists and items as  *)
(* an earlier playlists_get stored them when only some of the videos that  *)
(* are cached now were known.                                              *)
(***************************************************************************)
\* Video.from_playlist_item, models.py 97-106
from_playlist_item(playlist_item) ==
    Video(playlist_item.video_id, playlist_item.title, playlist_item.channel_id,
          "", Bit(playlist_item.is_unlisted), Bit(playlist_item.is_private))

\* Playlist.add_item on a row of playlist_items
add_item(row) ==
    PlaylistItem(row.id, row.video_id, row.channel_id, row.title, row.position,
                 row.is_unlisted, row.is_private, row.is_external, row.is_deleted)

\* the lists that hold every row of a set once
Listings(rows) ==
    {s \in [1..Cardinality(rows) -> rows] :
        \A i, j \in 1..Cardinality(rows) : i # j => s[i] # s[j]}

\* get_playlist_items without ORDER BY: the rows in any order
get_playlist_items_unordered(table, playlist) ==
    {[i \in 1..Len(s) |-> add_item(s[i])] :
        s \in Listings({r \in table : r.playlist_id = playlist.id})}

\* get_playlist_items, db.py 394-408: the lists playlist.items can be after
\* the call, the rows of the playlist ORDER BY position (rows of one
\* position in any order)
get_playlist_items(table, playlist) ==
    {[i \in 1..Len(s) |-> add_item(s[i])] :
        s \in {o \in Listings({r \in table : r.playlist_id = playlist.id}) :
                 \A i, j \in 1..Len(o) : i < j => o[i].position <= o[j].position}}

\* the body of the item loop of playlists_ls saving a video for every item
ls_item_unflagged(table, item, add_unlisted, add_external) ==
    save_video(table, from_playlist_item(item))

\* playlists_ls, lines 384-390: the body of the item loop on the table videos
ls_item(table, item, add_unlisted, add_external) ==
    LET t1 == IF add_unlisted /\ item.is_unlisted /\ ~item.is_private
                 /\ ~item.is_deleted
                 THEN save_video(table, from_playlist_item(item))
                 ELSE table
    IN  IF add_external /\ item.is_external
           THEN save_video(t1, from_playlist_item(item))
           ELSE t1

RECURSIVE LsItems(_, _, _, _, _)
LsItems(table, items, i, add_unlisted, add_external) ==
    IF i > Len(items) THEN table
    ELSE LsItems(ls_item(table, items[i], add_unlisted, add_external),
                 items, i + 1, add_unlisted, add_external)

\* the playlist loop of playlists_ls; listed[p] is playlist p's items
RECURSIVE LsPlaylists(_, _, _, _, _)
LsPlaylists(table, listed, p, add_unlisted, add_external) ==
    IF p > Len(listed) THEN table
    ELSE LsPlaylists(LsItems(table, listed[p], 1, add_unlisted, add_external),
                     listed, p + 1, add_unlisted, add_external)

\* what db.get_playlist_items can give for each playlist of a list
ListedItems(table, pls) ==
    {l \in [1..Len(pls) ->
              UNION {get_playlist_items(table, pls[p]) : p \in 1..Len(pls)}] :
        \A p \in 1..Len(pls) : l[p] \in get_playlist_items(table, pls[p])}

InitList ==
    /\ call = NoCall
    /\ DownloadIdle
    /\ fetch = NoFetch
    /\ sync = NoSync
    /\ columns = Schema
    /\ \E k1 \in ItemKinds, k2 \in ItemKinds2 :
          remote = [videos |-> <<<<[id |-> "vid1"]>>, <<[id |-> "vid2"]>>>>,
                    playlists |-> <<<<[id |-> "PL1", title |-> "mix"]>>,
                                    <<[id |-> "PL2", title |-> "empty"]>>>>,
                    PL1 |-> <<<<RemoteItem("it1", 0, k1)>>,
                              <<RemoteItem("it2", 1, k2)>>>>,
                    PL2 |-> <<<<>>>>]
    /\ \E cache \in GetCaches, stored \in BOOLEAN :
       \E earlier \in SUBSET cache.videos :
          LET got == playlists_get(cache.channels, earlier, cache.playlists, {},
                                   [c \in ChannelIds |-> remote], "@alpha",
                                   MaxRequests)
          IN  /\ videos = cache.videos
              /\ IF stored
                    THEN /\ got.status = "returned"
                         /\ channels = got.channels
                         /\ playlists = got.playlists
                         /\ playlist_items = got.playlist_items
                    ELSE /\ earlier = {}
                         /\ channels = cache.channels
                         /\ playlists = cache.playlists
                         /\ playlist_items = {}

\* playlists_ls, lines 373-391: the channel ID and the playlists are read
\* from the cache (either raises when there is none), every item of every
\* playlist is printed and, under the flags, saved as a video; one commit
PlaylistsLs ==
    \E channel_name \in GetNames, add_unlisted \in BOOLEAN, add_external \in BOOLEAN :
        /\ pc = "idle"
        /\ runs < MaxRuns
        /\ LET channel_id == get_channel_id_from_username(channels, channel_name)
               pls == get_playlists(playlists, channel_id)
               flags == [op |-> "playlists_ls", channel_name |-> channel_name,
                         add_unlisted |-> add_unlisted,
                         add_external |-> add_external, before |-> videos]
           IN  IF channel_id = NULL \/ pls = <<>>
                  THEN /\ result' = [status |-> "raised"]
                       /\ cmd' = [items |-> {}] @@ flags
                       /\ UNCHANGED videos
                  ELSE /\ \E listed \in ListedItems(playlist_items, pls) :
                             videos' = LsPlaylists(videos, listed, 1,
                                                   add_unlisted, add_external)
                       /\ cmd' = [items |-> {r \in playlist_items :
                                               \E p \in 1..Len(pls) :
                                                   r.playlist_id = pls[p].id}]
                                 @@ flags
                       /\ result' = [status |-> "returned"]
        /\ runs' = runs + 1
        /\ fetch' = NoFetch
        /\ UNCHANGED <<channels, playlists, playlist_items, getUnchanged>>

NextList ==
    \/ VideosGet
    \/ PlaylistsGet
    \/ PlaylistsLs

SpecList == InitList /\ [][NextList]_vars

(***************************************************************************)
(* db.save_playlist_item and db.get_playlist_items on an empty cache: the  *)
(* items are inserted one by one, in any order and at any position, and    *)
(* the items of a playlist are read back.                                  *)
(***************************************************************************)
Positions == 0..2

\* the item IDs in the order their rows were inserted
Inserted == IF call.op = "none" THEN <<>> ELSE call.rowids

itemsUnchanged ==
    <<channels, videos, playlists, disk, root_path, pc, txn, batch, idx,
      skip_ids, channel_id_name_table, downloaded_videos, failed_videos,
      decisions, runs, prev_run, fetchVars>>

\* save_playlist_item(cursor, playlist_id, playlist_item)
InsertItem ==
    \E playlist_id \in PlaylistIds, id \in ItemIds, position \in Positions :
        /\ playlist_items' =
              save_playlist_item(playlist_items, playlist_id,
                  PlaylistItem(id, "vid1", "UC_A", "title of vid1", position,
                               0, 0, 0, 0))
        /\ call' = [op |-> "save_playlist_item",
                    rowids |-> IF \E r \in playlist_items : r.id = id
                                  THEN Inserted ELSE Append(Inserted, id)]
        /\ cmd' = NoCall
        /\ result' = NoResult
        /\ UNCHANGED itemsUnchanged

\* get_playlist_items(cursor, playlist): playlist.items afterwards
GetPlaylistItems ==
    \E playlist_id \in PlaylistIds :
        /\ \E items \in get_playlist_items(playlist_items,
                                           Playlist(playlist_id, "mix", "UC_A")) :
              result' = [status |-> "returned", value |-> items]
        /\ cmd' = [op |-> "get_playlist_items", key |-> playlist_id]
        /\ UNCHANGED <<playlist_items, call, itemsUnchanged>>

NextItems ==
    \/ InsertItem
    \/ GetPlaylistItems

SpecItems == InitStore /\ [][NextItems]_vars

(***************************************************************************)
(* The duration and the resolution of a downloaded video, written with     *)
(* save_downloaded_video_details and read with get_video_by_id and         *)
(* get_videos. get_media_info makes the strings "<m>m<s>s" and "<w>x<h>".  *)
(***************************************************************************)
Durations == {MediaDuration, "0m5s", ""}
Resolutions == {MediaResolution, "640x360"}

\* save_downloaded_video_details(cursor, video) with the video's details;
\* what was read before the write is forgotten
SaveDetails ==
    \E video_id \in UpdateIds, duration \in Durations, resolution \in Resolutions :
        LET video == [Video(video_id, "title of " \o video_id, "UC_A",
                            "/archive/alpha/video/" \o video_id \o ".mp4", 0, 0)
                        EXCEPT !.duration = duration, !.resolution = resolution]
        IN  /\ runs < MaxRuns
            /\ runs' = runs + 1
            /\ videos' = save_downloaded_video_details(videos, video)
            /\ call' = [op |-> "save_downloaded_video_details", id |-> video_id,
                        fields |-> [duration |-> duration,
                                    resolution |-> resolution]]
            /\ cmd' = NoCall
            /\ result' = NoResult
            /\ UNCHANGED <<channels, playlists, playlist_items, disk, root_path,
                           pc, txn, batch, idx, skip_ids, channel_id_name_table,
                           downloaded_videos, failed_videos, decisions,
                           prev_run, fetchVars>>

\* get_videos(cursor, channel_id, False) raises when the SELECT returns no
\* row, lines 330-331
GetVideos ==
    \E channel_id \in {"UC_A", "UC_B"} :
        LET list == get_videos(videos, channel_id)
        IN  Answers("get_videos", channel_id,
                    IF Len(list) = 0 THEN "raised" ELSE "returned", list)

NextDetails ==
    \/ SaveDetails
    \/ GetVideoById
    \/ GetVideos

SpecDetails == InitUpdate /\ [][NextDetails]_vars

(***************************************************************************)
(* db.create_or_get_conn on a database file that an older version of the   *)
(* program made: the tables channels and videos have the columns of their  *)
(* CREATE TABLE statement and the first few of the columns added since; a  *)
(* row has the columns of its table. A new file has no table.              *)
(***************************************************************************)
\* the columns of the CREATE TABLE statements, lines 38-43, 52-60 and
\* 111-128
CreatedColumns ==
    [channels |-> <<"id", "username">>,
     videos |-> <<"id", "channel_id", "title", "saved_path">>,
     playlist_items |-> ItemColumns]

\* the columns added since with their DEFAULT (NULL where none is given),
\* lines 45-50 and 63-98
AddedColumns ==
    [channels |-> <<[name |-> "title", default |-> NULL],
                    [name |-> "description", default |-> NULL],
                    [name |-> "published_at", default |-> NULL],
                    [name |-> "large_thumbnail", default |-> NULL],
                    [name |-> "medium_thumbnail", default |-> NULL],
                    [name |-> "small_thumbnail", default |-> NULL]>>,
     videos |-> <<[name |-> "is_unlisted", default |-> 0],
                  [name |-> "is_private", default |-> 0],
                  [name |-> "download_error", default |-> NULL],
                  [name |-> "duration", default |-> NULL],
                  [name |-> "resolution", default |-> NULL]>>]

ColumnNames(cols) == {cols[i] : i \in 1..Len(cols)}

\* CREATE TABLE IF NOT EXISTS
create_table_if_not_exists(file, table) ==
    IF file.columns[table] # <<>> THEN file
    ELSE [file EXCEPT !.columns[table] = CreatedColumns[table]]

\* ALTER TABLE table ADD COLUMN name ... DEFAULT default: SQLite raises
\* "duplicate column name" when the table has the column; otherwise the
\* column is the last one and every row has the default in it
alter_table_add_column(file, table, name, default) ==
    IF file.raised THEN file
    ELSE IF name \in ColumnNames(file.columns[table])
        THEN [file EXCEPT !.raised = TRUE]
    ELSE [file EXCEPT
            !.columns[table] = Append(@, name),
            ![table] = {[c \in DOMAIN r \cup {name} |->
                            IF c = name THEN default ELSE r[c]] : r \in @}]

\* add_new_column without the test of PRAGMA table_info
add_new_column_unchecked(file, table, name, default_value) ==
    alter_table_add_column(file, table, name, default_value)

\* add_new_column, lines 8-18
add_new_column(file, table, name, default_value) ==
    IF name \notin ColumnNames(file.columns[table])
        THEN alter_table_add_column(file, table, name, default_value)
        ELSE file

\* lines 45-50: add_new_column for each added column of channels
RECURSIVE AddChannelColumns(_, _)
AddChannelColumns(file, i) ==
    IF i > Len(AddedColumns.channels) \/ file.raised THEN file
    ELSE AddChannelColumns(
            add_new_column(file, "channels", AddedColumns.channels[i].name,
                           AddedColumns.channels[i].default),
            i + 1)

\* lines 62-98: the columns of videos are read once, and each added column
\* that is not among them is added
RECURSIVE AddVideoColumns(_, _, _)
AddVideoColumns(file, columns_read, i) ==
    IF i > Len(AddedColumns.videos) \/ file.raised THEN file
    ELSE AddVideoColumns(
            IF AddedColumns.videos[i].name \notin ColumnNames(columns_read)
                THEN alter_table_add_column(file, "videos",
                                            AddedColumns.videos[i].name,
                                            AddedColumns.videos[i].default)
                ELSE file,
            columns_read, i + 1)

\* create_or_get_conn, lines 36-98, on the file: the file afterwards
create_or_get_conn(file) ==
    LET with_channels ==
            AddChannelColumns(create_table_if_not_exists(file, "channels"), 1)
        with_videos == create_table_if_not_exists(with_channels, "videos")
        upgraded == AddVideoColumns(with_videos, with_videos.columns.videos, 1)
    IN  IF upgraded.raised THEN upgraded
        ELSE create_table_if_not_exists(upgraded, "playlist_items")

\* the first n columns
FirstColumns(cols, n) == [i \in 1..n |-> cols[i]]

\* a row of this version cut down to the columns of an older file
OldRow(row, cols) == [c \in ColumnNames(cols) |-> row[c]]

SchemaChannels ==
    {ChannelRow("UC_A", "@alpha", "2020-01-01", "Alpha", "about alpha",
                "png:L", "png:M", "png:S"),
     ChannelRow("UC_B", "@beta", NULL, NULL, NULL, NULL, NULL, NULL)}

SchemaVideos ==
    {[VideoRow("vid1", "UC_A", "title of vid1", "/archive/alpha/video/vid1.mp4", 1, 0)
        EXCEPT !.duration = MediaDuration, !.resolution = MediaResolution],
     [VideoRow("vid2", "UC_A", "title of vid2", NULL, 0, 1)
        EXCEPT !.download_error = "Private video"]}

\* the files of older versions, and the new file
OldFiles ==
    {[channels |-> <<>>, videos |-> <<>>, playlist_items |-> <<>>]} \cup
    ({[channels |-> FirstColumns(ChannelColumns, n),
       videos |-> FirstColumns(VideoColumns, m),
       playlist_items |-> ItemColumns] :
         n \in Len(CreatedColumns.channels)..Len(ChannelColumns),
         m \in Len(CreatedColumns.videos)..Len(VideoColumns)} \ {Schema})

InitSchema ==
    /\ columns \in OldFiles
    /\ channels \in SUBSET {OldRow(r, columns.channels) : r \in SchemaChannels}
    /\ videos \in SUBSET {OldRow(r, columns.videos) : r \in SchemaVideos}
    /\ (columns.channels = <<>> => channels = {})
    /\ (columns.videos = <<>> => videos = {})
    /\ playlists = {}
    /\ playlist_items = {}
    /\ call = NoCall
    /\ DownloadIdle
    /\ remote = NoRemote
    /\ fetch = NoFetch
    /\ sync = NoSync

\* db.create_or_get_conn() is called
CreateOrGetConn ==
    /\ runs < MaxRuns
    /\ runs' = runs + 1
    /\ LET file == [columns |-> columns, channels |-> channels,
                    videos |-> videos, raised |-> FALSE]
           opened == create_or_get_conn(file)
       IN  /\ columns' = opened.columns
           /\ channels' = opened.channels
           /\ videos' = opened.videos
           /\ result' = [status |-> IF opened.raised THEN "raised" ELSE "returned"]
           /\ cmd' = [op |-> "create_or_get_conn", before |-> file]
    /\ UNCHANGED <<playlists, playlist_items, call, disk, root_path, pc, txn,
                   batch, idx, skip_ids, channel_id_name_table,
                   downloaded_videos, failed_videos, decisions, prev_run,
                   remote, fetch, sync>>

SpecSchema == InitSchema /\ [][CreateOrGetConn]_vars

(***************************************************************************)
(* create_or_get_conn and the accessors of db.py on a cache file that      *)
(* app.py's create_or_get_db_conn made (channels(id, name), playlist_items *)
(* without position), or that the first db.py made. A statement that names *)
(* a column the table does not have raises sqlite3.OperationalError.       *)
(***************************************************************************)
\* the tables of app.py create_or_get_db_conn, lines 250-313
LegacyColumns ==
    [channels |-> <<"id", "name">>,
     videos |-> <<"id", "channel_id", "title", "saved_path", "is_unlisted",
                  "is_private">>,
     playlist_items |-> <<"id", "playlist_id", "video_id", "channel_id", "title",
                          "is_unlisted", "is_private", "is_external",
                          "is_deleted">>]

\* app.py stored the username in the column name
LegacyRow(row, cols) ==
    [c \in ColumnNames(cols) |-> IF c = "name" THEN row.username ELSE row[c]]

LegacyItems ==
    {PlaylistItemRow("PL1", PlaylistItem("it1", "vid1", "UC_A", "title of vid1",
                                         0, 0, 0, 0, 0))}

InitLegacy ==
    /\ columns \in {LegacyColumns, CreatedColumns}
    /\ channels \in SUBSET {LegacyRow(r, columns.channels) : r \in SchemaChannels}
    /\ videos \in SUBSET {OldRow(r, columns.videos) : r \in SchemaVideos}
    /\ playlist_items \in SUBSET {OldRow(r, columns.playlist_items) : r \in LegacyItems}
    /\ playlists = {}
    /\ call = NoCall
    /\ DownloadIdle
    /\ remote = NoRemote
    /\ fetch = NoFetch
    /\ sync = NoSync

\* the table has every column the statement names
HasColumns(table, names) == names \subseteq ColumnNames(columns[table])

\* the row an INSERT makes: the named columns as given, the others NULL
InsertedRow(table, values) ==
    [c \in ColumnNames(columns[table]) |->
        IF c \in DOMAIN values THEN values[c] ELSE NULL]

\* an accessor of db.py is called with the cursor of create_or_get_conn
Accesses(fn, key, status) ==
    /\ cmd.op # "none"
    /\ runs < MaxRuns
    /\ runs' = runs + 1
    /\ cmd' = [op |-> fn, key |-> key]
    /\ result' = [status |-> status]
    /\ UNCHANGED <<videos, playlists, call, disk, root_path, pc, txn, batch, idx,
                   skip_ids, channel_id_name_table, downloaded_videos,
                   failed_videos, decisions, prev_run, fetchVars>>

\* save_channel(cursor, id, username), db.py 133-140
ConnSaveChannel ==
    \E id \in ChannelIds, username \in {"@alpha"} :
        IF HasColumns("channels", {"id", "username"})
            THEN /\ channels' = InsertOrIgnore(channels,
                        InsertedRow("channels", [id |-> id, username |-> username]))
                 /\ Accesses("save_channel", id, "returned")
                 /\ UNCHANGED playlist_items
            ELSE /\ Accesses("save_channel", id, "no such column")
                 /\ UNCHANGED <<channels, playlist_items>>

\* save_playlist_item(cursor, playlist_id, playlist_item), db.py 216-240
ConnSavePlaylistItem ==
    \E id \in {"it1", "it2"} :
        LET row == PlaylistItemRow("PL1",
                       PlaylistItem(id, "vid2", "UC_A", "title of vid2", 1, 0, 0, 0, 0))
        IN  IF HasColumns("playlist_items", DOMAIN row)
                THEN /\ playlist_items' = InsertOrIgnore(playlist_items,
                            InsertedRow("playlist_items", row))
                     /\ Accesses("save_playlist_item", id, "returned")
                     /\ UNCHANGED channels
                ELSE /\ Accesses("save_playlist_item", id, "no such column")
                     /\ UNCHANGED <<channels, playlist_items>>

\* get_channel_id_from_username(cursor, channel_username), db.py 279-284
ConnGetChannelId ==
    \E channel_username \in {"@alpha", "@nobody"} :
        /\ Accesses("get_channel_id_from_username", channel_username,
                IF ~HasColumns("channels", {"id", "username"})
                    THEN "no such column"
                ELSE IF \E r \in channels : r.username = channel_username
                    THEN "returned"
                ELSE "raised")
        /\ UNCHANGED <<channels, playlist_items>>

NextLegacy ==
    \/ CreateOrGetConn
    \/ ConnSaveChannel
    \/ ConnSavePlaylistItem
    \/ ConnGetChannelId

SpecLegacy == InitLegacy /\ [][NextLegacy]_vars

(***************************************************************************)
(* create_or_get_conn, lines 21-34: where the cache file is. The process   *)
(* environment has or has not YT_CH_ARCHIVER_DB_PATH, HOME and APPDATA;    *)
(* NULL is a variable that is not set. disk holds the directories and the  *)
(* files that exist.                                                       *)
(***************************************************************************)
Environments ==
    [YT_CH_ARCHIVER_DB_PATH : {NULL, "/data/cache.db"},
     HOME : {NULL, "/home/u", "/root"},
     APPDATA : {NULL, "C:/Users/u/AppData"}]

\* os.path.join
PathJoin(a, b) == a \o "/" \o b

\* the default directories of lines 25-28
AppDataPaths ==
    {PathJoin(home, ".local/share/yt-ch-archiver") :
        home \in {e.HOME : e \in Environments} \ {NULL}} \cup
    {PathJoin(appdata, "yt-ch-archiver") :
        appdata \in {e.APPDATA : e \in Environments} \ {NULL}}

\* lines 22-33: the condition of line 22 is the truth of the string literal
\* "YT_CH_ARCHIVER_DB_PATH"; os.environ[...] raises KeyError for a variable
\* that is not set
database_path(environ, files) ==
    IF Truthy("YT_CH_ARCHIVER_DB_PATH")
        THEN IF environ.YT_CH_ARCHIVER_DB_PATH = NULL
                THEN [status |-> "raised", path |-> NULL, files |-> files]
                ELSE [status |-> "returned",
                      path |-> environ.YT_CH_ARCHIVER_DB_PATH, files |-> files]
    ELSE IF environ.HOME # NULL
        THEN LET app_data_path == PathJoin(environ.HOME, ".local/share/yt-ch-archiver")
             IN  [status |-> "returned", path |-> PathJoin(app_data_path, "videos.db"),
                  files |-> files \cup {app_data_path}]
    ELSE IF environ.APPDATA # NULL
        THEN LET app_data_path == PathJoin(environ.APPDATA, "yt-ch-archiver")
             IN  [status |-> "returned", path |-> PathJoin(app_data_path, "videos.db"),
                  files |-> files \cup {app_data_path}]
    ELSE [status |-> "raised", path |-> NULL, files |-> files]

InitConnect ==
    /\ channels = {}
    /\ videos = {}
    /\ playlists = {}
    /\ playlist_items = {}
    /\ call = NoCall
    /\ disk \in SUBSET AppDataPaths
    /\ root_path = NULL
    /\ pc = "idle"
    /\ cmd = NoCall
    /\ txn = NoTxn
    /\ batch = <<>>
    /\ idx = 1
    /\ skip_ids = {}
    /\ channel_id_name_table = <<>>
    /\ downloaded_videos = <<>>
    /\ failed_videos = <<>>
    /\ decisions = <<>>
    /\ result = NoResult
    /\ runs = 0
    /\ prev_run = NoPrevRun
    /\ FetchIdle

\* create_or_get_conn is called in a process with this environment;
\* sqlite3.connect makes the file when there is none
Connect ==
    \E environ \in Environments :
        LET found == database_path(environ, disk)
        IN  /\ runs < MaxRuns
            /\ runs' = runs + 1
            /\ cmd' = [op |-> "connect", environ |-> environ]
            /\ result' = [status |-> found.status, database_path |-> found.path]
            /\ disk' = IF found.status = "returned"
                          THEN found.files \cup {found.path} ELSE disk
            /\ UNCHANGED <<storeVars, root_path, pc, txn, batch, idx, skip_ids,
                           channel_id_name_table, downloaded_videos,
                           failed_videos, decisions, prev_run, fetchVars>>

SpecConnect == InitConnect /\ [][Connect]_vars

(***************************************************************************)
(* The commands that write channels, videos and playlists, in any order:   *)
(* videos_get, playlists_get, playlists_ls, videos_download of one ID,     *)
(* channels_delete and playlists_delete, on the caches of two channels.    *)
(***************************************************************************)
\* the second item of PL1 on YouTube: an available video of another
\* channel. In the caches of InitRefs the owner of every stored item
\* has its channel row, as yt.get_playlist_items saves it with the item.
RefItemKinds == {k \in ItemKinds2 : k.title = "ordinary"}

InitRefs ==
    /\ \E t \in DeleteCaches :
          /\ \A i \in t.playlist_items : \E c \in t.channels : c.id = i.channel_id
          /\ channels = t.channels
          /\ videos = t.videos
          /\ playlists = t.playlists
          /\ playlist_items = t.playlist_items
    /\ call = NoCall
    /\ disk = {}
    /\ root_path = "/archive"
    /\ pc = "idle"
    /\ cmd = NoCall
    /\ txn = NoTxn
    /\ batch = <<>>
    /\ idx = 1
    /\ skip_ids = {}
    /\ channel_id_name_table = <<>>
    /\ downloaded_videos = <<>>
    /\ failed_videos = <<>>
    /\ decisions = <<>>
    /\ result = NoResult
    /\ runs = 0
    /\ prev_run = NoPrevRun
    /\ \E k2 \in RefItemKinds :
          remote = [videos |-> <<<<[id |-> "vid1"]>>, <<[id |-> "vid2"]>>>>,
                    playlists |-> <<<<[id |-> "PL1", title |-> "mix"]>>>>,
                    PL1 |-> <<<<RemoteItem("it1", 0, [title |-> "ordinary",
                                                      owner |-> "UC_A",
                                                      videoId |-> "vid1"]),
                                RemoteItem("it4", 1, k2)>>>>]
    /\ fetch = NoFetch
    /\ sync = NoSync
    /\ columns = Schema

\* the commands below are started when no other command is running
PlaylistsGetIdle == pc = "idle" /\ PlaylistsGet

ChannelsDeleteIdle == pc = "idle" /\ ChannelsDelete

PlaylistsDeleteIdle == pc = "idle" /\ PlaylistsDelete

NextRefs ==
    \/ VideosGet
    \/ VideosGetOwner
    \/ PlaylistsGetIdle
    \/ PlaylistsLs
    \/ VideosDownloadId
    \/ DownloadVideo
    \/ DownloadReturn
    \/ ChannelsDeleteIdle
    \/ PlaylistsDeleteIdle

SpecRefs == InitRefs /\ [][NextRefs]_vars

(***************************************************************************)
(* channels_sync when a channel of the list has no uploads and no          *)
(* playlists on YouTube.                                                   *)
(***************************************************************************)
InitEmpty ==
    /\ \E cache \in SyncCaches :
          /\ channels = cache.channels
          /\ videos = cache.videos
    /\ playlists = {}
    /\ playlist_items = {}
    /\ call = NoCall
    /\ disk = {}
    /\ root_path \in RootPaths
    /\ pc = "idle"
    /\ cmd = NoCall
    /\ txn = NoTxn
    /\ batch = <<>>
    /\ idx = 1
    /\ skip_ids = {}
    /\ channel_id_name_table = <<>>
    /\ downloaded_videos = <<>>
    /\ failed_videos = <<>>
    /\ decisions = <<>>
    /\ result = NoResult
    /\ runs = 0
    /\ prev_run = NoPrevRun
    /\ \E k \in SyncItemKinds :
          remote = [UC_A |-> [videos |-> <<<<[id |-> "vid1"]>>, <<[id |-> "vid2"]>>>>,
                              playlists |-> <<<<[id |-> "PL1", title |-> "mix"]>>>>,
                              PL1 |-> <<<<RemoteItem("it1", 0, k)>>>>],
                    UC_B |-> [videos |-> <<<<>>>>,
                              playlists |-> <<<<>>>>]]
    /\ fetch = NoFetch
    /\ sync = NoSync
    /\ columns = Schema

SpecEmpty == InitEmpty /\ [][NextSync]_vars

(***************************************************************************)
(* C1                                                                      *)
(***************************************************************************)
UniqueKey(table) == \A r1, r2 \in table : r1.id = r2.id => r1 = r2

RowsKept(table, table2) == \A r \in table : r \in table2

\* C1: under every sequence of save_channel, save_channel_details,
\* save_video, save_playlist and save_playlist_item calls each table holds at
\* most one row per primary key, and no call changes or removes a row that is
\* already stored: the row of a key stays the row of the first insert.
C1_IdempotentUpsert ==
    /\ [](/\ UniqueKey(channels) /\ UniqueKey(videos)
          /\ UniqueKey(playlists) /\ UniqueKey(playlist_items))
    /\ [][/\ RowsKept(channels, channels') /\ RowsKept(videos, videos')
          /\ RowsKept(playlists, playlists')
          /\ RowsKept(playlist_items, playlist_items')]_vars

\* C1 witness: the last call was an insert of a key that was already stored
\* with other field values, in the channels and in the videos table.
C1_Witness ==
    \/ /\ call.op = "save_video"
       /\ \E r \in videos : r.id = call.id /\ r.title # call.title
    \/ /\ call.op = "save_channel_details"
       /\ \E r \in channels : r.id = call.id /\ r.username # call.username

(***************************************************************************)
(* C2                                                                      *)
(***************************************************************************)
\* the decision the four rules give, first match first
FirstMatch(e) ==
    IF e.saved /\ e.exists THEN "saved"
    ELSE IF e.is_private # 0 THEN "private"
    ELSE IF e.in_skip THEN "skip_list"
    ELSE "attempt"

\* C2: download_videos decides about every video of the batch, in batch
\* order, by the first rule that matches: saved path set and file on disk,
\* private, on the skip list, otherwise attempt. A transfer is started for a
\* video exactly when none of the three skip rules holds, and never for a
\* private video.
C2_DecisionOrder ==
    /\ Len(decisions) = idx - 1
    /\ pc = "idle" => Len(decisions) = Len(batch)
    /\ \A i \in 1..Len(decisions) :
          LET e == decisions[i]
          IN  /\ e.id = batch[i].id
              /\ e.decision = FirstMatch(e)
              /\ (e.end # "skipped") <=>
                    (~(e.saved /\ e.exists) /\ e.is_private = 0 /\ ~e.in_skip)
              /\ e.is_private # 0 => e.end = "skipped"

\* C2 witness: the batch is done; a private video whose saved file is gone
\* and which is on the skip list was skipped as private, another video was
\* attempted.
C2_Witness ==
    /\ pc = "idle"
    /\ \E i, j \in 1..Len(decisions) :
          /\ decisions[i].is_private = 1 /\ decisions[i].saved
          /\ ~decisions[i].exists /\ decisions[i].in_skip
          /\ decisions[i].decision = "private"
          /\ decisions[j].decision = "attempt" /\ decisions[j].end = "downloaded"

(***************************************************************************)
(* C3                                                                      *)
(***************************************************************************)
\* C3: wherever a command treats a video as already downloaded
\* (download_videos, add_video_to_download_list_or_ignore, videos_download
\* with a video ID), the file of its saved path exists on disk.
C3_SavedPathRechecked ==
    \A i \in 1..Len(decisions) :
        decisions[i].decision = "saved" => decisions[i].exists

\* The same for download_videos and add_video_to_download_list_or_ignore
\* alone, which do test os.path.exists.
C3_RecheckedOutsideVideosDownload ==
    cmd.op # "videos_download" => C3_SavedPathRechecked

(***************************************************************************)
(* C4                                                                      *)
(***************************************************************************)
Row(video_id) == CHOOSE r \in videos : r.id = video_id

InList(list, video_id) == \E k \in 1..Len(list) : list[k].id = video_id

\* C4: when download_videos is over, every video of the batch was
\* evaluated and the two lists were returned; a video whose attempt raised
\* is in the failed list with the error text on it, and the text is the
\* download_error of its row (the text of its last attempt, when the batch
\* names it twice); a video whose attempt succeeded is in the downloaded
\* list.
C4_FailureIsolated ==
    (pc = "idle" /\ \E i \in 1..Len(decisions) :
                        decisions[i].end \in {"failed", "propagates"})
    => /\ result.status = "returned"
       /\ idx = Len(batch) + 1
       /\ \A i \in 1..Len(decisions) :
             LET e == decisions[i]
             IN  /\ e.end = "downloaded" => InList(downloaded_videos, e.id)
                 /\ e.step \in {"transfer", "glob", "media", "db", "thumb"} =>
                       /\ \E k \in 1..Len(failed_videos) :
                             /\ failed_videos[k].id = e.id
                             /\ failed_videos[k].download_error = ErrorText[e.step]
                       /\ (\A j \in (i+1)..Len(decisions) :
                               decisions[j].id = e.id =>
                                   decisions[j].end = "skipped")
                          => \E r \in videos :
                                /\ r.id = e.id
                                /\ r.download_error = ErrorText[e.step]

\* The same for every command whose connection holds no uncommitted insert
\* while download_videos runs and whose videos all have a channel row.
C4_IsolatedWithoutOpenTransaction ==
    (cmd.op \in {"download_videos_for_channel", "download_videos"})
        => C4_FailureIsolated

(***************************************************************************)
(* C5                                                                      *)
(***************************************************************************)
\* C5: a video downloaded by the running download_videos has the saved
\* path, duration and resolution of its Video object in its row, and the
\* row carries no download_error.
C5_SuccessClearsError ==
    pc = "download" =>
        \A k \in 1..Len(downloaded_videos) :
            LET v == downloaded_videos[k]
            IN  \E r \in videos :
                    /\ r.id = v.id
                    /\ r.saved_path = v.saved_path
                    /\ r.duration = v.duration
                    /\ r.resolution = v.resolution
                    /\ r.download_error = NULL

\* What the UPDATE does write: path, duration and resolution.
C5_SuccessPersistsDetails ==
    pc = "download" =>
        \A k \in 1..Len(downloaded_videos) :
            LET v == downloaded_videos[k]
            IN  \E r \in videos :
                    /\ r.id = v.id
                    /\ r.saved_path = v.saved_path /\ Truthy(r.saved_path)
                    /\ r.duration = MediaDuration
                    /\ r.resolution = MediaResolution

(***************************************************************************)
(* C6                                                                      *)
(***************************************************************************)
\* C6: while download_videos_for_channel runs for the channel of the
\* previous command, itself a download_videos_for_channel that returned, and
\* no file was removed in between, no video of the previous run's downloaded
\* list is attempted.
C6_NoRedownload ==
    (/\ pc = "download"
     /\ cmd.op = "download_videos_for_channel"
     /\ prev_run.channel = cmd.channel
     /\ prev_run.intact)
    => \A i \in 1..Len(decisions) :
          decisions[i].decision = "attempt" =>
              decisions[i].id \notin prev_run.downloaded

\* C6 witness: the second run has evaluated its whole batch and skipped a
\* video the first run downloaded.
C6_Witness ==
    /\ pc = "download"
    /\ cmd.op = "download_videos_for_channel"
    /\ prev_run.channel = cmd.channel
    /\ prev_run.intact
    /\ idx > Len(batch)
    /\ \E i \in 1..Len(decisions) :
          /\ decisions[i].id \in prev_run.downloaded
          /\ decisions[i].decision = "saved"
    /\ \E i \in 1..Len(decisions) : decisions[i].decision = "attempt"

(***************************************************************************)
(* C7                                                                      *)
(***************************************************************************)
\* the remote requests of the last command: searches, list pages, title
\* lookups
RemoteRequests(st) == st.searches + Len(st.requests) + st.lookups

\* C7: a videos_get (playlists_get) for a channel whose videos (playlists)
\* were in the cache when it started has issued no remote request.
C7_CacheFirst ==
    (cmd.op \in {"videos_get", "playlists_get"} /\ cmd.cached)
        => RemoteRequests(fetch) = 0

(***************************************************************************)
(* C8                                                                      *)
(***************************************************************************)
RECURSIVE Flatten(_)
Flatten(pages) ==
    IF pages = <<>> THEN <<>> ELSE Head(pages) \o Flatten(Tail(pages))

IdsOf(list) == [i \in 1..Len(list) |-> list[i].id]

RequestsOf(st, c) == SelectSeq(st.requests, LAMBDA r : r.coll = c)

YtFetchers ==
    {"yt.get_channel_videos", "yt.get_playlists_for_channel", "yt.get_playlist_items"}

\* the keys of the collections a call reads, in the order it reads them
Keys(st) ==
    IF st.fn = "yt.get_playlist_items"
        THEN [c \in 1..Len(st.playlists) |-> st.playlists[c].id]
        ELSE <<Collection(st)>>

\* what the call returned for its c-th collection
Returned(st, c) ==
    IF st.fn = "yt.get_playlist_items" THEN st.out[c].items ELSE st.out[c]

\* C8: in yt.get_channel_videos, yt.get_playlists_for_channel and
\* yt.get_playlist_items the list built after k requests is the concatenation
\* of the first k pages, the loop goes on only while the last response
\* carried a token, and what is returned for a collection of N pages is the
\* concatenation of all N pages in page order, after N requests of which
\* only the last got a response without a token.
C8_PaginationComplete ==
    fetch.fn \in YtFetchers =>
        /\ fetch.pc = "loop" =>
              LET pages == remote[Collection(fetch)]
                  k == Len(RequestsOf(fetch, fetch.coll))
              IN  /\ k < Len(pages)
                  /\ IdsOf(fetch.items) = IdsOf(Flatten(SubSeq(pages, 1, k)))
        /\ \A c \in 1..Len(fetch.out) :
              LET pages == remote[Keys(fetch)[c]]
                  reqs == RequestsOf(fetch, c)
              IN  /\ IdsOf(Returned(fetch, c)) = IdsOf(Flatten(pages))
                  /\ Len(reqs) = Len(pages)
                  /\ \A k \in 1..Len(reqs) :
                        (reqs[k].nextPageToken = NULL) <=> (k = Len(reqs))
        /\ fetch.pc = "returned" => Len(fetch.out) = Len(Keys(fetch))

\* C8 witness: get_playlist_items has returned the items of a playlist of
\* several pages, three items or more, and of a second playlist.
C8_Witness ==
    /\ fetch.fn = "yt.get_playlist_items"
    /\ fetch.pc = "returned"
    /\ Len(remote["PL1"]) >= 2
    /\ Len(fetch.out[1].items) >= 3
    /\ Len(remote["PL2"]) >= 2
    /\ Len(fetch.out[2].items) >= 2

(***************************************************************************)
(* C9                                                                      *)
(***************************************************************************)
\* C9: in every fetch loop the first request for a collection names no
\* token, every later request names the token of the response before it,
\* and no page of a collection is requested twice in one call.
C9_TokenPassed ==
    \A k \in 1..Len(fetch.requests) :
        LET r == fetch.requests[k]
        IN  /\ r.pageToken =
                  IF k = 1 THEN NULL
                  ELSE IF fetch.requests[k - 1].coll # r.coll THEN NULL
                  ELSE fetch.requests[k - 1].nextPageToken
            /\ \A j \in 1..(k - 1) :
                  ~(fetch.requests[j].coll = r.coll /\ fetch.requests[j].page = r.page)

\* The same for the three loops of yt.py alone.
C9_TokenPassedInYt == fetch.fn \in YtFetchers => C9_TokenPassed

(***************************************************************************)
(* C10                                                                     *)
(***************************************************************************)
\* C10: after playlists_get every item that get_playlist_items built from a
\* response item whose title is no sentinel has is_external exactly when the
\* owner channel of the response item is not the playlist's channel,
\* is_unlisted exactly when it is not external and its video ID is not
\* among the video IDs handed to get_playlist_items, and is neither private
\* nor deleted.
C10_Classifier ==
    (cmd.op = "playlists_get" /\ result.status = "returned") =>
        \A c \in 1..Len(fetch.out) :
            LET playlist == fetch.out[c]
                raw == Flatten(remote[playlist.id])
            IN  \A i \in 1..Len(playlist.items) :
                    LET item == playlist.items[i]
                    IN  raw[i].title \notin Sentinels =>
                            /\ item.is_external =
                                  (raw[i].videoOwnerChannelId # playlist.channel_id)
                            /\ item.is_unlisted =
                                  (/\ ~item.is_external
                                   /\ raw[i].videoId \notin fetch.video_ids)
                            /\ item.is_private = FALSE
                            /\ item.is_deleted = FALSE

\* C10 witness: an item of the playlist's own channel with an ordinary title
\* whose video is not in the cache came out unlisted, with no other flag.
C10_Witness ==
    /\ cmd.op = "playlists_get"
    /\ result.status = "returned"
    /\ \E c \in 1..Len(fetch.out) :
          \E i \in 1..Len(fetch.out[c].items) :
              LET item == fetch.out[c].items[i]
                  raw == Flatten(remote[fetch.out[c].id])[i]
              IN  /\ raw.title = "ordinary"
                  /\ raw.videoOwnerChannelId = fetch.out[c].channel_id
                  /\ raw.videoId \notin {r.id : r \in videos}
                  /\ item.is_unlisted /\ ~item.is_external
                  /\ ~item.is_private /\ ~item.is_deleted

(***************************************************************************)
(* C11                                                                     *)
(***************************************************************************)
\* the item get_playlist_items built from the i-th response item of the
\* c-th playlist, and that response item
Built(c, i) == fetch.out[c].items[i]

Raw(c, i) == Flatten(remote[fetch.out[c].id])[i]

PlaylistsGetReturned == cmd.op = "playlists_get" /\ result.status = "returned"

\* C11: after playlists_get an item titled "Deleted video" whose response
\* names an owner channel other than the playlist's channel and whose video
\* ID is not among the known video IDs is external and deleted, and neither
\* private nor unlisted.
C11_DeletedExternal ==
    PlaylistsGetReturned =>
        \A c \in 1..Len(fetch.out) :
            \A i \in 1..Len(fetch.out[c].items) :
                (/\ Raw(c, i).title = "Deleted video"
                 /\ Raw(c, i).videoOwnerChannelId \notin {NULL, fetch.out[c].channel_id}
                 /\ Raw(c, i).videoId \notin fetch.video_ids)
                => /\ Built(c, i).is_external
                   /\ Built(c, i).is_deleted
                   /\ ~Built(c, i).is_private
                   /\ ~Built(c, i).is_unlisted

\* What the code gives that item: deleted and unlisted, of the playlist's
\* channel, not external.
C11_DeletedIsUnlisted ==
    PlaylistsGetReturned =>
        \A c \in 1..Len(fetch.out) :
            \A i \in 1..Len(fetch.out[c].items) :
                (/\ Raw(c, i).title = "Deleted video"
                 /\ Raw(c, i).videoId \notin fetch.video_ids)
                => /\ ~Built(c, i).is_external
                   /\ Built(c, i).is_deleted
                   /\ ~Built(c, i).is_private
                   /\ Built(c, i).is_unlisted
                   /\ Built(c, i).channel_id = fetch.out[c].channel_id

(***************************************************************************)
(* C12                                                                     *)
(***************************************************************************)
\* C12: no item built by get_playlist_items and no row of playlist_items is
\* both external and unlisted.
C12_ExternalNeverUnlisted ==
    /\ fetch.fn = "yt.get_playlist_items" =>
          \A c \in 1..Len(fetch.out) :
              \A i \in 1..Len(fetch.out[c].items) :
                  ~(Built(c, i).is_external /\ Built(c, i).is_unlisted)
    /\ \A r \in playlist_items : ~(r.is_external = 1 /\ r.is_unlisted = 1)

\* C12 witness: an item of another channel whose video is not in the cache
\* was built and stored, external and not unlisted.
C12_Witness ==
    /\ PlaylistsGetReturned
    /\ \E c \in 1..Len(fetch.out) :
          \E i \in 1..Len(fetch.out[c].items) :
              /\ Raw(c, i).videoId \notin fetch.video_ids
              /\ Built(c, i).is_external
              /\ ~Built(c, i).is_unlisted
              /\ \E r \in playlist_items :
                    /\ r.id = Built(c, i).id
                    /\ r.is_external = 1
                    /\ r.is_unlisted = 0

(***************************************************************************)
(* C13                                                                     *)
(***************************************************************************)
\* the owner channels of the response items of the remote playlists whose
\* title is no sentinel
NamedOwners ==
    UNION {{Flatten(remote[key])[i].videoOwnerChannelId :
                i \in {j \in 1..Len(Flatten(remote[key])) :
                            Flatten(remote[key])[j].title \notin Sentinels}} :
            key \in {"PL1", "PL2"}}

\* every item built from a response item with a sentinel title is of the
\* playlist's channel, not external, private exactly for "Private video" and
\* deleted exactly for "Deleted video", whatever owner the response names
SentinelOfPlaylistChannel ==
    PlaylistsGetReturned =>
        \A c \in 1..Len(fetch.out) :
            \A i \in 1..Len(fetch.out[c].items) :
                Raw(c, i).title \in Sentinels =>
                    /\ Built(c, i).channel_id = fetch.out[c].channel_id
                    /\ ~Built(c, i).is_external
                    /\ Built(c, i).is_private = (Raw(c, i).title = "Private video")
                    /\ Built(c, i).is_deleted = (Raw(c, i).title = "Deleted video")

\* a playlists_get step adds channel rows only for owners named by items
\* whose title is no sentinel
SavesNamedOwnersOnly ==
    (runs' # runs /\ cmd'.op = "playlists_get") =>
        \A r \in channels' : r \in channels \/ r.id \in NamedOwners

\* C13: an item titled "Private video" or "Deleted video" is attributed to
\* the playlist's channel also when the response names no owner or another
\* one, is never external, is private or deleted as its title says, and no
\* channel row is saved for it.
C13_SentinelFallback ==
    /\ []SentinelOfPlaylistChannel
    /\ [][SavesNamedOwnersOnly]_vars

\* C13 witness: playlists_get returned with one sentinel item whose response
\* names no owner and one whose response names channel UC_B, and there is no
\* row of UC_B in channels.
C13_Witness ==
    /\ PlaylistsGetReturned
    /\ \E i, j \in 1..Len(fetch.out[1].items) :
          /\ Raw(1, i).title \in Sentinels
          /\ Raw(1, i).videoOwnerChannelId = NULL
          /\ Raw(1, j).title \in Sentinels
          /\ Raw(1, j).videoOwnerChannelId = "UC_B"
          /\ Built(1, j).channel_id = "UC_A"
    /\ ~\E r \in channels : r.id = "UC_B"

(***************************************************************************)
(* C14                                                                     *)
(***************************************************************************)
\* the calls channels_sync has begun and ended, in pairs: the pair of call n
SyncCallOf(k) == (k + 1) \div 2

\* C14: channels_sync goes through the channel names one after another and
\* for each channel calls videos_get, then playlists_get, then
\* download_videos_for_channel: every call begins after the call before it
\* has returned, no call begins after one has raised, and while
\* download_videos runs no other call has begun.
C14_StagesInOrder ==
    sync.stage # "none" =>
        /\ \A k \in 1..Len(sync.log) :
              LET e == sync.log[k]
                  n == SyncCallOf(k)
              IN  /\ e.channel = sync.names[((n - 1) \div 3) + 1]
                  /\ e.stage = <<"videos_get", "playlists_get",
                                 "download_videos_for_channel">>[((n - 1) % 3) + 1]
                  /\ IF k % 2 = 1 THEN e.ev = "begin"
                     ELSE e.ev \in {"returned", "raised"}
                  /\ e.ev = "raised" => k = Len(sync.log)
        /\ pc = "download" =>
              /\ Len(sync.log) % 2 = 1
              /\ sync.log[Len(sync.log)].stage = "download_videos_for_channel"
        /\ sync.stage = "done" => Len(sync.log) = 6 * Len(sync.names)

\* a sync of two channels has made its six calls and written the report
C14_Witness ==
    /\ sync.stage = "done"
    /\ Len(sync.names) = 2
    /\ Len(sync.log) = 12
    /\ sync.log[7].channel = sync.names[2]
    /\ sync.log[7].channel # sync.log[6].channel

(***************************************************************************)
(* C15                                                                     *)
(***************************************************************************)
\* channels_sync is over: it returned or an exception left it
SyncOver == sync.stage = "done" \/ SyncRaised

\* the channels for which videos_get raised
VideosGetFailed ==
    {j \in 1..Len(sync.names) :
        \E k \in 1..Len(sync.log) :
            sync.log[k] = Event(sync.names[j], "videos_get", "raised")}

\* C15: when videos_get has raised for one channel of a channels_sync over
\* several channels, the batch is not aborted: once the sync is over every
\* later channel has been processed (its videos_get was called) and the
\* report was written.
C15_FailureDoesNotAbort ==
    (sync.stage # "none" /\ SyncOver /\ Len(sync.names) > 1) =>
        \A j \in VideosGetFailed :
            /\ \A l \in (j + 1)..Len(sync.names) :
                  \E k \in 1..Len(sync.log) :
                      sync.log[k] = Event(sync.names[l], "videos_get", "begin")
            /\ sync.file.written

(***************************************************************************)
(* C16                                                                     *)
(***************************************************************************)
\* the report file lists every channel of the dict in this section, a
\* channel without videos by the line that says so
SectionListsAll(section, dict, none) ==
    /\ Len(section) = Len(dict)
    /\ \A i \in 1..Len(dict) :
          /\ section[i].channel = dict[i].key
          /\ Len(section[i].lines) >= 1
          /\ Len(dict[i].value) = 0 <=> section[i].lines = <<none>>

\* C16: every channels_sync that was started with the download root
\* configured has, once it is over, written its report, and the report lists
\* the channels without a downloaded video as 'No videos downloaded' and
\* those without a failed one as 'No failed downloads'.
C16_ReportWritten ==
    (sync.stage # "none" /\ SyncOver /\ Truthy(root_path)) =>
        /\ sync.file.written
        /\ SectionListsAll(sync.file.downloaded, sync.report.videos_downloaded,
                           "No videos downloaded")
        /\ SectionListsAll(sync.file.failed, sync.report.failed_downloads,
                           "No failed downloads")

\* a channels_sync that returned has written the report of every channel,
\* also when every attempted video failed
C16_ReportWhenReturned ==
    sync.stage = "done" =>
        /\ sync.file.written
        /\ Len(sync.file.downloaded) = Len(sync.names)
        /\ SectionListsAll(sync.file.downloaded, sync.report.videos_downloaded,
                           "No videos downloaded")
        /\ SectionListsAll(sync.file.failed, sync.report.failed_downloads,
                           "No failed downloads")

(***************************************************************************)
(* C17                                                                     *)
(***************************************************************************)
\* the records of a channel in the tables chs and vids
RecordsOf(chs, vids, channel_id) ==
    [channels |-> {r \in chs : r.id = channel_id},
     videos |-> {r \in vids : r.channel_id = channel_id}]

\* playlists_get of channels_sync has just raised for this channel
PlaylistsGetRaised ==
    /\ sync.stage = "raised"
    /\ cmd.op = "playlists_get"
    /\ result.status = "raised"

\* what videos_get committed for the channel is in the cache
StageARecordsKept ==
    PlaylistsGetRaised =>
        LET channel_id == SearchChannel(cmd.channel_name)[1]
            list == Flatten(remote[channel_id].videos)
        IN  /\ \E r \in channels : r.id = channel_id
            /\ \A i \in 1..Len(list) :
                  \E v \in videos : v.id = list[i].id /\ v.channel_id = channel_id

\* the step in which playlists_get raises changes no record of the channel
StageBFailureChangesNothing ==
    (sync' # sync /\ cmd'.op = "playlists_get" /\ result'.status = "raised") =>
        LET channel_id == SearchChannel(cmd'.channel_name)[1]
        IN  RecordsOf(channels', videos', channel_id)
                = RecordsOf(channels, videos, channel_id)

\* C17: when playlists_get fails for a channel, the channel record and the
\* video records that videos_get committed for that channel are in the
\* cache, unchanged.
C17_StageAKept == []StageARecordsKept /\ [][StageBFailureChangesNothing]_vars

\* playlists_get raised in the middle of its fetch, after videos_get had
\* saved the two videos of the channel
C17_Witness ==
    /\ PlaylistsGetRaised
    /\ fetch.requests # <<>>
    /\ Cardinality({v \in videos : v.channel_id = "UC_A"}) = 2
    /\ cmd.channel_name = "@alpha"

(***************************************************************************)
(* C18                                                                     *)
(***************************************************************************)
\* a row of the cache holds this retrieved item
Persisted(fn, item) ==
    CASE fn = "yt.get_channel_videos" -> \E r \in videos : r.id = item.id
      [] fn = "yt.get_playlists_for_channel" -> \E r \in playlists : r.id = item.id
      [] OTHER -> \E r \in playlist_items : r.id = item.id

\* C18: videos_get and playlists_get persist each item as it is retrieved:
\* when the fetch has raised after some items were retrieved, those items
\* are in the cache.
C18_PersistedAsRetrieved ==
    (sync.stage = "raised" /\ cmd.op \in {"videos_get", "playlists_get"}
        /\ result.status = "raised" /\ fetch.pc = "raised") =>
        LET got == Retrieved(fetch, 1)
        IN  \A i \in 1..Len(got) : Persisted(fetch.fn, got[i])

(***************************************************************************)
(* C19                                                                     *)
(***************************************************************************)
\* the cache as it is now
Cache == Tables(channels, videos, playlists, playlist_items)

\* C19: channels_delete changes the cache only after the user has answered
\* 'y' (in either case) to the confirmation that showed the channel's ID and
\* the number of its cached videos; when the user declines, when the command
\* raises before asking, or when a statement of the deletion raises, the
\* cache is exactly as it was before the command.
C19_DeleteOnlyConfirmed ==
    cmd.op = "channels_delete" =>
        /\ Cache # cmd.before =>
              /\ cmd.user_input \in {"y", "Y"}
              /\ cmd.shown = <<cmd.channel_id,
                               Cardinality({v \in cmd.before.videos :
                                               v.channel_id = cmd.channel_id})>>
              /\ result.outcome = "deleted"
        /\ result.outcome \in {"raised", "cancelled", "error"} => Cache = cmd.before

\* a confirmed deletion whose third statement raised, after the items and
\* the playlists of the channel had been deleted on the connection
C19_Witness ==
    /\ cmd.op = "channels_delete"
    /\ result.outcome = "error"
    /\ cmd.statements = <<"playlist_items", "playlists">>
    /\ \E p \in cmd.before.playlists : p.channel_id = cmd.channel_id
    /\ \E i \in cmd.before.playlist_items : i.channel_id = cmd.channel_id
    /\ Cache = cmd.before

(***************************************************************************)
(* C20                                                                     *)
(***************************************************************************)
\* the playlist items that belong to a channel: those of its playlists
ItemsOfChannel(tables, its, channel_id) ==
    {i \in its : \E p \in tables.playlists :
                    p.id = i.playlist_id /\ p.channel_id = channel_id}

\* C20: after a confirmed channels_delete of a cached channel has run, the
\* cache holds no channel record of it and no video, playlist or playlist
\* item that belongs to it, and the statements ran in the order playlist
\* items, playlists, videos, channel.
C20_NothingRemains ==
    (cmd.op = "channels_delete" /\ result.outcome = "deleted") =>
        /\ \A c \in channels : c.id # cmd.channel_id
        /\ \A v \in videos : v.channel_id # cmd.channel_id
        /\ \A p \in playlists : p.channel_id # cmd.channel_id
        /\ ItemsOfChannel(cmd.before, playlist_items, cmd.channel_id) = {}
        /\ cmd.statements = <<"playlist_items", "playlists", "videos", "channels">>

\* what does hold: no record that names the channel in its channel column
\* remains, and the order is the one claimed
C20_NamedRecordsRemoved ==
    (cmd.op = "channels_delete" /\ result.outcome = "deleted") =>
        /\ \A c \in channels : c.id # cmd.channel_id
        /\ \A v \in videos : v.channel_id # cmd.channel_id
        /\ \A p \in playlists : p.channel_id # cmd.channel_id
        /\ \A i \in playlist_items : i.channel_id # cmd.channel_id
        /\ cmd.statements = <<"playlist_items", "playlists", "videos", "channels">>

(***************************************************************************)
(* C21                                                                     *)
(***************************************************************************)
\* playlists_delete has run for a cached channel
PlaylistsDeleted == cmd.op = "playlists_delete" /\ result.status = "returned"

\* C21: after playlists_delete for a channel no playlist of the channel
\* remains and no item of a playlist the channel owned remains, whatever
\* channel the item is attributed to; the playlists of other channels and
\* the items of those playlists are unchanged.
C21_PlaylistsDeleted ==
    PlaylistsDeleted =>
        /\ \A p \in playlists : p.channel_id # cmd.channel_id
        /\ ItemsOfChannel(cmd.before, playlist_items, cmd.channel_id) = {}
        /\ playlists = {p \in cmd.before.playlists : p.channel_id # cmd.channel_id}
        /\ playlist_items =
              cmd.before.playlist_items
                  \ ItemsOfChannel(cmd.before, cmd.before.playlist_items, cmd.channel_id)

\* what does hold: the playlists of the channel are gone, those of other
\* channels are kept, and the items that remain are those attributed to
\* another channel
C21_DeletedByAttribution ==
    PlaylistsDeleted =>
        /\ playlists = {p \in cmd.before.playlists : p.channel_id # cmd.channel_id}
        /\ playlist_items =
              {i \in cmd.before.playlist_items : i.channel_id # cmd.channel_id}
        /\ channels = cmd.before.channels
        /\ videos = cmd.before.videos

(***************************************************************************)
(* C22                                                                     *)
(***************************************************************************)
\* from table to table2 only the fields named, of the row with that key,
\* may differ; no row is added or removed
OnlyFieldsOf(table, table2, id, fields) ==
    /\ {r.id : r \in table2} = {r.id : r \in table}
    /\ Cardinality(table2) = Cardinality(table)
    /\ \A r \in table : r.id # id => r \in table2
    /\ \A r \in table, r2 \in table2 :
          (r.id = id /\ r2.id = id) =>
              /\ DOMAIN r2 = DOMAIN r
              /\ \A f \in DOMAIN r \ fields : r2[f] = r[f]

\* C22: save_video_path, save_downloaded_video_details, save_download_error
\* and save_updated_channel_details change only the fields they name, of
\* the one row with the given primary key: every other field and every
\* other row is unchanged, and when no row has the key nothing is created or
\* changed.
C22_TargetedUpdate ==
    [][LET ofChannels == call'.op = "save_updated_channel_details"
       IN  /\ OnlyFieldsOf(channels, channels', call'.id,
                           IF ofChannels THEN call'.fields ELSE {})
           /\ OnlyFieldsOf(videos, videos', call'.id,
                           IF ofChannels THEN {} ELSE call'.fields)
           /\ (\A r \in channels \cup videos : r.id # call'.id) =>
                 (channels' = channels /\ videos' = videos)
           /\ UNCHANGED <<playlists, playlist_items>>]_vars

\* an update has changed one of two stored videos, and one has changed a
\* stored channel
C22_Witness ==
    \/ /\ call.op = "save_video_path"
       /\ Cardinality(videos) >= 2
       /\ \E r \in videos : r.id = call.id /\ r.saved_path # ""
       /\ \E r \in videos : r.id # call.id /\ r.saved_path = ""
    \/ /\ call.op = "save_updated_channel_details"
       /\ \E r \in channels : r.id = call.id /\ r.title = "Alpha"

(***************************************************************************)
(* C23                                                                     *)
(***************************************************************************)
\* the rows the lookup that has just run is about
LookedUp ==
    CASE cmd.op = "get_channel_by_id" -> {r \in channels : r.id = cmd.key}
      [] cmd.op = "get_channel_by_username" -> {r \in channels : r.username = cmd.key}
      [] cmd.op = "get_video_by_id" -> {r \in videos : r.id = cmd.key}
      [] OTHER -> {r \in playlists : r.channel_id = cmd.key}

LookupFns ==
    {"get_channel_by_id", "get_channel_by_username", "get_video_by_id", "get_playlists"}

\* C23: the lookups channel by ID, channel by username, video by ID and
\* playlists by channel ID raise when nothing is cached under the key and
\* return the cached entity otherwise.
C23_GetOrFail ==
    cmd.op \in LookupFns =>
        IF LookedUp = {} THEN result.status = "raised"
        ELSE result.status = "returned"

\* what does hold: only get_playlists raises on a miss, the other three
\* return None; on a hit each returns the cached entity
C23_NoneOnMiss ==
    cmd.op \in LookupFns =>
        IF LookedUp = {}
            THEN IF cmd.op = "get_playlists" THEN result.status = "raised"
                 ELSE result.status = "returned" /\ result.value = {}
        ELSE /\ result.status = "returned"
             /\ IF cmd.op = "get_playlists"
                   THEN {result.value[i].id : i \in 1..Len(result.value)}
                            = {r.id : r \in LookedUp}
                   ELSE \E e \in result.value, r \in LookedUp :
                            /\ result.value = {e}
                            /\ e.id = r.id

(***************************************************************************)
(* C24                                                                     *)
(***************************************************************************)
\* playlists_get of channels_sync has run for a channel that is cached under
\* its name and has no playlist on YouTube, and the request for its
\* playlists was answered
EmptyCollectionFetched ==
    /\ sync.stage # "none"
    /\ cmd.op = "playlists_get"
    /\ \E c \in channels :
          /\ c.username = cmd.channel_name
          /\ Flatten(remote[c.id].playlists) = <<>>
    /\ Len(fetch.requests) >= 1

\* C24: a channel without playlists on YouTube is a valid case:
\* yt.get_playlists_for_channel returns the empty list without raising and
\* playlists_get ends without an error and stores no playlist.
C24_EmptyCollection ==
    EmptyCollectionFetched =>
        /\ result.status = "returned"
        /\ fetch.pc = "returned"
        /\ fetch.out = <<>>
        /\ Len(fetch.requests) = 1
        /\ \A p \in playlists, c \in channels :
              c.username = cmd.channel_name => p.channel_id # c.id

\* playlists_get returned for the channel without playlists and the sync
\* goes on to the download
C24_Witness ==
    /\ EmptyCollectionFetched
    /\ cmd.channel_name = "@beta"
    /\ result.status = "returned"
    /\ sync.stage = "running"
    /\ Stages[sync.step] = "download_videos_for_channel"

(***************************************************************************)
(* C25                                                                     *)
(***************************************************************************)
\* a video record of this ID, committed or written by the open connection
VideoRecord(video_id) == \E r \in videos \cup txn.videos : r.id = video_id

\* C25: when the search for a channel name returns no item, videos_get
\* raises and no channel record of that name is in the cache; when the
\* lookup of a video ID returns no item, videos_download with that ID
\* raises, add_video_to_download_list_or_ignore skips the ID, and no video
\* record of an ID that was not cached before is in the cache.
C25_ZeroResults ==
    /\ (cmd.op = "videos_get" /\ SearchChannel(cmd.channel_name) = <<>>) =>
          /\ result.status = "raised"
          /\ \A c \in channels : c.username # cmd.channel_name
          /\ fetch.requests = <<>>
    /\ (cmd.op = "videos_download" /\ ~cmd.found) =>
          /\ result.status = "raised"
          /\ cmd.video_id \notin cmd.cached
          /\ ~VideoRecord(cmd.video_id)
    /\ (cmd.op = "videos_download_path" /\ ~cmd.found) =>
          \A i \in 1..Len(cmd.video_ids) :
              cmd.video_ids[i] \notin cmd.cached =>
                  /\ ~VideoRecord(cmd.video_ids[i])
                  /\ \A j \in 1..Len(batch) : batch[j].id # cmd.video_ids[i]

\* videos_get has raised for a name YouTube does not know, after a
\* videos_download whose ID YouTube does not know
C25_Witness ==
    /\ cmd.op = "videos_get"
    /\ cmd.channel_name = "@nobody"
    /\ result.status = "raised"
    /\ runs = 2
    /\ ~VideoRecord("ext1")

(***************************************************************************)
(* C26                                                                     *)
(***************************************************************************)
PlaylistsLsDone == cmd.op = "playlists_ls"

\* the stored item is one that the flags of the playlists_ls that ran select
Selected(r) ==
    \/ cmd.add_unlisted /\ r.is_unlisted = 1 /\ r.is_private = 0 /\ r.is_deleted = 0
    \/ cmd.add_external /\ r.is_external = 1

\* after playlists_ls the table videos is the table before it plus, for
\* every selected item of the channel's playlists whose video ID was not
\* stored, one row made of the item
VideosOnlyByFlags ==
    PlaylistsLsDone =>
        /\ cmd.before \subseteq videos
        /\ \A v1, v2 \in videos : v1.id = v2.id => v1 = v2
        /\ \A v \in videos \ cmd.before :
              \E r \in cmd.items :
                  /\ Selected(r)
                  /\ v = VideoRow(r.video_id, r.channel_id, r.title, "",
                                  r.is_unlisted, r.is_private)
        /\ \A r \in cmd.items :
              Selected(r) => \E v \in videos : v.id = r.video_id
        /\ (~cmd.add_unlisted /\ ~cmd.add_external) => videos = cmd.before

\* C26: playlists_get adds no record to videos. playlists_ls changes the
\* cache only in videos and only under its flags: with add_unlisted a video
\* is inserted-or-ignored for exactly the items that are unlisted and
\* neither private nor deleted, with add_external for exactly the external
\* items; without a flag videos is unchanged.
C26_VideosOnlyByFlags ==
    /\ []VideosOnlyByFlags
    /\ [][/\ cmd'.op = "playlists_get" => videos' = videos
          /\ cmd'.op = "playlists_ls" =>
                UNCHANGED <<channels, playlists, playlist_items>>]_vars

\* playlists_ls --add-unlisted has added the video of an unlisted item and
\* none for the external item beside it
C26_Witness ==
    /\ PlaylistsLsDone
    /\ cmd.add_unlisted /\ ~cmd.add_external
    /\ \E r \in cmd.items :
          /\ r.is_unlisted = 1
          /\ \E v \in videos \ cmd.before : v.id = r.video_id
    /\ \E r \in cmd.items :
          /\ r.is_external = 1
          /\ \A v \in videos : v.id # r.video_id

(***************************************************************************)
(* C27                                                                     *)
(***************************************************************************)
\* C27: a run of playlists_get leaves every stored playlist item as it is:
\* its flags, title, channel and position are those of the first storing,
\* also when the video IDs known to the cache have grown since.
C27_StoredItemsFixed ==
    [][cmd'.op = "playlists_get" =>
          \A r \in playlist_items : r \in playlist_items']_vars

\* playlists_get has run again and returned; an item it had stored as
\* unlisted is still unlisted although its video is cached now
C27_Witness ==
    /\ cmd.op = "playlists_get"
    /\ cmd.cached
    /\ result.status = "returned"
    /\ Len(fetch.requests) > 0
    /\ \E r \in playlist_items :
          /\ r.is_unlisted = 1
          /\ \E v \in videos : v.id = r.video_id /\ v.channel_id = r.channel_id

(***************************************************************************)
(* C28                                                                     *)
(***************************************************************************)
ItemsRead == cmd.op = "get_playlist_items"

\* the place of an item ID in the order of insertion
RowidOf(id) == CHOOSE k \in 1..Len(Inserted) : Inserted[k] = id

\* C28: get_playlist_items gives every stored item of the playlist, each
\* once and as it is stored, in ascending order of position, whatever the
\* order in which the items were inserted.
C28_ItemsByPosition ==
    ItemsRead =>
        LET rows == {r \in playlist_items : r.playlist_id = cmd.key}
            items == result.value
        IN  /\ Len(items) = Cardinality(rows)
            /\ \A r \in rows : \E i \in 1..Len(items) : items[i] = add_item(r)
            /\ \A i, j \in 1..Len(items) :
                  i < j => items[i].position <= items[j].position

\* three items of one playlist were read back by position, the reverse of
\* the order in which they were inserted
C28_Witness ==
    /\ ItemsRead
    /\ Len(result.value) = 3
    /\ \A i, j \in 1..3 :
          i < j => /\ result.value[i].position < result.value[j].position
                   /\ RowidOf(result.value[i].id) > RowidOf(result.value[j].id)

(***************************************************************************)
(* C29                                                                     *)
(***************************************************************************)
\* the videos a get_video_by_id or a get_videos has returned
VideosRead ==
    IF cmd.op = "get_video_by_id" THEN result.value
    ELSE IF cmd.op = "get_videos" /\ result.status = "returned"
        THEN {result.value[i] : i \in 1..Len(result.value)}
    ELSE {}

\* the last write was save_downloaded_video_details
DetailsWritten == call.op = "save_downloaded_video_details"

\* what was read agrees with what was written
DetailsAsWritten ==
    /\ \A v \in VideosRead :
          v.id = call.id => /\ v.duration = call.fields.duration
                            /\ v.resolution = call.fields.resolution
    /\ (cmd.op = "get_video_by_id" /\ cmd.key = call.id
          /\ \E r \in videos : r.id = call.id) => result.value # {}
    /\ (cmd.op = "get_videos"
          /\ \E r \in videos : r.id = call.id /\ r.channel_id = cmd.key) =>
             \E v \in VideosRead : v.id = call.id

\* C29: the duration string and the resolution string that
\* save_downloaded_video_details wrote for a cached video are the strings
\* of the Video that a get_video_by_id or a get_videos after it returns
\* for that video.
C29_DetailsRoundTrip == DetailsWritten => DetailsAsWritten

\* "12m34s" and "1920x1080" were written for vid1 and get_videos returned
\* them with the video
C29_Witness ==
    /\ DetailsWritten
    /\ cmd.op = "get_videos"
    /\ \E v \in VideosRead :
          /\ v.id = call.id
          /\ v.duration = "12m34s"
          /\ v.resolution = "1920x1080"

(***************************************************************************)
(* C30                                                                     *)
(***************************************************************************)
Opened == cmd.op = "create_or_get_conn"

\* the default of an added column: 0 for the two flags of videos, NULL for
\* the others
DefaultOf(table, column) ==
    IF table = "videos" /\ column \in {"is_unlisted", "is_private"} THEN 0 ELSE NULL

\* the rows of a table of the file
RowsIn(table) == IF table = "channels" THEN channels ELSE videos

\* every row the table had is still there with its values, the columns it
\* did not have at their default, and there is no other row
TableKept(table) ==
    /\ Cardinality(RowsIn(table)) = Cardinality(cmd.before[table])
    /\ \A r \in cmd.before[table] :
          \E r2 \in RowsIn(table) :
              /\ DOMAIN r2 = ColumnNames(columns[table])
              /\ \A c \in DOMAIN r : r2[c] = r[c]
              /\ \A c \in DOMAIN r2 \ DOMAIN r : r2[c] = DefaultOf(table, c)

\* the table has every column of this version once, the ones it had first
ColumnsComplete(table) ==
    /\ ColumnNames(columns[table]) = ColumnNames(Schema[table])
    /\ Len(columns[table]) = Len(Schema[table])
    /\ \A i \in 1..Len(cmd.before.columns[table]) :
          columns[table][i] = cmd.before.columns[table][i]

\* C30: create_or_get_conn on a file whose table channels or videos lacks
\* newer columns returns without error, adds each missing column with its
\* default (0 for is_unlisted and is_private, NULL otherwise) and keeps
\* every row; on a file that has all columns it changes nothing.
C30_SchemaUpgrade ==
    Opened =>
        /\ result.status = "returned"
        /\ \A table \in {"channels", "videos"} :
              ColumnsComplete(table) /\ TableKept(table)
        /\ cmd.before.columns = Schema =>
              /\ columns = cmd.before.columns
              /\ channels = cmd.before.channels
              /\ videos = cmd.before.videos

\* a file of an older version that held rows was opened a second time
C30_Witness ==
    /\ Opened
    /\ runs = 2
    /\ result.status = "returned"
    /\ cmd.before.columns = Schema
    /\ \E v \in videos : v.id = "vid1" /\ v.is_private = 0 /\ v.resolution = NULL
    /\ \E c \in channels : c.id = "UC_A" /\ c.small_thumbnail = NULL

(***************************************************************************)
(* C31                                                                     *)
(***************************************************************************)
\* channels_sync was called while YT_CH_ARCHIVER_ROOT_PATH is not set
SyncWithoutRootPath == sync.stage # "none" /\ ~Truthy(root_path)

\* C31: when the root-path environment variable is unset, an invocation of
\* channels_sync fails before anything is attempted: no request is sent to
\* YouTube, the cache holds the records it held before, and no download is
\* started.
C31_NothingAttempted ==
    SyncWithoutRootPath =>
        /\ fetch = NoFetch
        /\ \E cache \in SyncCaches :
              channels = cache.channels /\ videos = cache.videos
        /\ playlists = {}
        /\ playlist_items = {}
        /\ disk = {}

(***************************************************************************)
(* C32                                                                     *)
(***************************************************************************)
\* the file is one that app.py made and create_or_get_conn has opened
LegacyFileOpened == cmd.op # "none" /\ HasColumns("channels", {"name"})

\* C32: once create_or_get_conn has opened a cache file made by app.py,
\* the columns the accessors name exist (channels.username,
\* playlist_items.position, videos.download_error, duration, resolution),
\* so no accessor fails for a missing column, and the open has kept every
\* row.
C32_LegacyFileUsable ==
    LegacyFileOpened =>
        /\ HasColumns("channels", {"username"})
        /\ HasColumns("playlist_items", {"position"})
        /\ HasColumns("videos", {"download_error", "duration", "resolution"})
        /\ result.status # "no such column"
        /\ Opened => TableKept("channels") /\ TableKept("videos")

(***************************************************************************)
(* C33                                                                     *)
(***************************************************************************)
Connected == cmd.op = "connect"

\* the default location for an environment without the override
DefaultPath(environ) ==
    IF environ.HOME # NULL
        THEN PathJoin(PathJoin(environ.HOME, ".local/share/yt-ch-archiver"), "videos.db")
        ELSE PathJoin(PathJoin(environ.APPDATA, "yt-ch-archiver"), "videos.db")

\* C33: create_or_get_conn opens the file that YT_CH_ARCHIVER_DB_PATH names
\* when the variable is set; when it is not set it opens videos.db in the
\* default directory under the home directory, which exists afterwards; it
\* raises only when neither the override nor HOME nor APPDATA is set.
C33_CacheLocation ==
    Connected =>
        LET environ == cmd.environ
        IN  /\ environ.YT_CH_ARCHIVER_DB_PATH # NULL =>
                  /\ result.status = "returned"
                  /\ result.database_path = environ.YT_CH_ARCHIVER_DB_PATH
            /\ (environ.YT_CH_ARCHIVER_DB_PATH = NULL
                  /\ (environ.HOME # NULL \/ environ.APPDATA # NULL)) =>
                  /\ result.status = "returned"
                  /\ result.database_path = DefaultPath(environ)
                  /\ \E dir \in disk :
                        PathJoin(dir, "videos.db") = result.database_path
            /\ result.status = "raised" =>
                  /\ environ.YT_CH_ARCHIVER_DB_PATH = NULL
                  /\ environ.HOME = NULL
                  /\ environ.APPDATA = NULL

(***************************************************************************)
(* C34                                                                     *)
(***************************************************************************)
\* the videos of the two lists download_videos returns
Outcome == downloaded_videos \o failed_videos

\* C34: in a batch that videos_download builds from a file of URLs, each
\* video ID is in the batch once, is attempted at most once and is at most
\* once in the downloaded and failed lists together, also when the ID is on
\* several lines of the file.
C34_AttemptedOnce ==
    cmd.op = "videos_download_path" =>
        /\ \A i, j \in 1..Len(batch) : batch[i].id = batch[j].id => i = j
        /\ \A i, j \in 1..Len(Outcome) : Outcome[i].id = Outcome[j].id => i = j

(***************************************************************************)
(* C35                                                                     *)
(***************************************************************************)
\* videos_download of the ID of a video that was not in the cache has ended,
\* and neither yt-dlp, the search of the file, get_media_info nor the
\* thumbnail raised
UncachedTransferred ==
    /\ pc = "idle"
    /\ cmd.op = "videos_download"
    /\ cmd.video_id \notin cmd.cached
    /\ Len(decisions) = 1
    /\ decisions[1].step \in {"none", "db"}

VideosGetSucceeded == cmd.op = "videos_get" /\ result.status = "returned"

\* C36: after videos_get(name) succeeded, get_channel_id_from_username(name)
\* finds the channel the name was resolved to, also when that channel was
\* already cached under another username (saved as the owner of a playlist
\* item).
C36_NameResolvesAfterGet ==
    VideosGetSucceeded =>
        get_channel_id_from_username(channels, cmd.channel_name)
            = SearchChannel(cmd.channel_name)[1]

(***************************************************************************)
(* C37                                                                     *)
(***************************************************************************)
\* the channel row a record refers to is in the cache
HasChannel(r) == \E c \in channels : c.id = r.channel_id

\* the owner of every stored playlist item has its channel row
ItemOwnersCached == \A i \in playlist_items : HasChannel(i)

\* C37: in every committed state of the cache, after any sequence of
\* videos_get, playlists_get, playlists_ls with promotion, videos_download
\* of one ID, channels_delete and playlists_delete, every video row and
\* every playlist row names a channel_id that is in channels.
C37_ChannelReferences ==
    /\ \A v \in videos : HasChannel(v)
    /\ \A p \in playlists : HasChannel(p)

\* playlists_ls --add-external has promoted the video of an item that the
\* playlists_get before it stored with another channel as its owner
C37_Witness ==
    /\ cmd.op = "playlists_ls"
    /\ cmd.add_external
    /\ runs = 2
    /\ \E v \in videos \ cmd.before :
          /\ v.id = "vid9"
          /\ v.channel_id = "UC_B"
          /\ \E i \in cmd.items : i.id = "it4" /\ i.video_id = v.id

(***************************************************************************)
(* C38                                                                     *)
(***************************************************************************)
\* the videos of the running or last download_videos whose try block was
\* entered, and those of them that had no saved path before
Attempted ==
    {decisions[i].id : i \in {j \in 1..Len(decisions) :
                                /\ decisions[j].decision = "attempt"
                                /\ decisions[j].end # "aborted"}}

AttemptedUnsaved ==
    {decisions[i].id : i \in {j \in 1..Len(decisions) :
                                /\ decisions[j].decision = "attempt"
                                /\ decisions[j].end # "aborted"
                                /\ ~decisions[j].saved}}

\* the row of the video holds a saved path
PathPersisted(video_id) == \E r \in videos : r.id = video_id /\ Truthy(r.saved_path)

\* C38: for every run of download_videos the downloaded list and the failed
\* list are disjoint and every attempted video is in exactly one of them; a
\* video in the failed list has no saved path persisted by that attempt,
\* and a video whose saved path was persisted is in the downloaded list,
\* also when a step after the cache update (the thumbnail) raises.
C38_ListsAgreeWithCache ==
    /\ Ids(downloaded_videos) \cap Ids(failed_videos) = {}
    /\ \A id \in Attempted :
          InList(downloaded_videos, id) # InList(failed_videos, id)
    /\ \A id \in AttemptedUnsaved :
          /\ InList(failed_videos, id) => ~PathPersisted(id)
          /\ PathPersisted(id) => InList(downloaded_videos, id)

(***************************************************************************)
(* C39                                                                     *)
(***************************************************************************)
\* the last call of the loop of channels_sync was this one, and it returned
LoopCallReturned(op) == sync.stage # "none" /\ cmd.op = op /\ result.status = "returned"

\* the channel ID the cache holds for the name of the last call
CalledChannel == get_channel_id_from_username(channels, cmd.channel_name)

\* the channel of that name has no uploads on YouTube
WithoutUploads(channel_name) ==
    /\ SearchChannel(channel_name) # <<>>
    /\ Flatten(remote[SearchChannel(channel_name)[1]].videos) = <<>>

\* C39: after videos_get returned, db.get_videos for the channel does not
\* raise, and after playlists_get returned db.get_playlists does not raise,
\* also when YouTube had no video or no playlist for the channel; in
\* channels_sync the download stage of a channel without videos does not
\* raise.
C39_ReadableAfterGet ==
    /\ LoopCallReturned("videos_get") => Len(get_videos(videos, CalledChannel)) > 0
    /\ LoopCallReturned("playlists_get") => Len(get_playlists(playlists, CalledChannel)) > 0
    /\ sync.stage # "none" =>
          \A k \in 1..Len(sync.log) :
              (/\ sync.log[k].stage = "download_videos_for_channel"
               /\ WithoutUploads(sync.log[k].channel))
                  => sync.log[k].ev # "raised"

====
